---------------------------- MODULE Spec2Model ----------------------------
(***************************************************************************)
(* Verification model of lattigostats: the CKKS evaluator facade           *)
(* (pkg/he), the numeric operators (pkg/ops/numeric), the categorical /    *)
(* LBc operators (pkg/ops/categorical), the approximation operators        *)
(* (pkg/ops/approx) and the ordinal percentile operator (pkg/ops/ordinal). *)
(*                                                                         *)
(* A ciphertext is modelled by what the facade can observe of it: its      *)
(* level and its slot values.  The Lattigo backend is the environment: a   *)
(* backend call either fails (the caller of a modelled function chooses    *)
(* which backend call fails through failAt) or returns a ciphertext with   *)
(* the level Lattigo gives it.                                             *)
(***************************************************************************)
EXTENDS Integers, Sequences, FiniteSets, TLC

(***************************************************************************)
(* Bounds of the model.                                                    *)
(***************************************************************************)
MaxLevel == 4
MaxCalls == 2
MaxLogSlots == 2
MaxVal == 1
NumWorkers == 2
MaxOpsPerWorker == 2
MaxBlocks == 2
MaxCategories == 2
MaxIterations == 3
MaxFailAt == 6
MaxRows == 6
MaxDelta == 2
MaxTableRows == 3
MaxNoise == 1
MaxMetaRows == 9
MaxMetaSlots == 4
FracBits == 8
MaxDegree == 3
MaxSharpen == 8
MaxMagnitude == 32

(***************************************************************************)
(* Program constants.                                                      *)
(***************************************************************************)
DefaultMinLevel == 2
ProfileALogN == 14

VARIABLES
  stats,        \* Evaluator.stats: the shared counters struct
  bootstrapper, \* Evaluator.bootstrapper # nil
  minLevel,     \* Evaluator.minLevel
  slots,        \* Evaluator.Slots()
  arg,          \* call log: the ciphertext handed to the last facade call
  inp,          \* call log: the inputs handed to the last operator call
  ret,          \* call log: the ciphertext the last call returned
  err,          \* call log: the error the last call returned
  lastOp,       \* call log: the name of the last call
  before,       \* call log: the counters before the last call
  trace,        \* call log: the backend calls the last call issued, in order
  failed,       \* call log: index in trace of the backend call that failed
  calls,        \* number of calls made so far
  mu,           \* Stats.mu: 0 when free, else the goroutine holding it
  wk,           \* the goroutines sharing the evaluator: position and locals
  done          \* backend calls that succeeded, per counter they are counted in

evalVars == <<stats, bootstrapper, minLevel, slots>>
logVars == <<arg, inp, ret, err, lastOp, before, trace, failed, calls>>
concVars == <<mu, wk, done>>
vars == <<evalVars, logVars, concVars>>

(***************************************************************************)
(* Helpers.                                                                *)
(***************************************************************************)
Min(a, b) == IF a <= b THEN a ELSE b

RECURSIVE Pow2(_)
Pow2(n) == IF n <= 0 THEN 1 ELSE 2 * Pow2(n - 1)

RECURSIVE SumSeq(_)
SumSeq(s) == IF s = <<>> THEN 0 ELSE Head(s) + SumSeq(Tail(s))

\* Go errors: nil is the empty sequence, fmt.Errorf("ctx: %w", e) prepends ctx.
NoErr == <<>>
Wrap(ctx, e) == <<ctx>> \o e
BackendErr == <<"backend">>
\* A Go runtime panic (nil dereference, index out of range): no return at all.
Panic == <<"panic">>

\* A nil *rlwe.Ciphertext.
NilCt == [level |-> -1, vals |-> <<>>]
Ct(l, v) == [level |-> l, vals |-> v]

ZeroStats ==
  [MulCount |-> 0, AddCount |-> 0, RotateCount |-> 0,
   RescaleCount |-> 0, BootstrapCount |-> 0]

Counters == DOMAIN ZeroStats

Total(s) ==
  s.MulCount + s.AddCount + s.RotateCount + s.RescaleCount + s.BootstrapCount

(***************************************************************************)
(* The environment threaded through the calls of one operator: the         *)
(* counters, the backend calls issued so far, the index of the backend     *)
(* call that is going to fail (0: none) and the one that did fail.         *)
(***************************************************************************)
Env(s, f) == [stats |-> s, trace |-> <<>>, failAt |-> f, failed |-> 0]

\* What a call hands back: the environment after it, the ciphertext and the
\* error it returns.
Out(e, c, r) == [env |-> e, ct |-> c, err |-> r]

\* The backend is called: the call is issued, and fails when it is the
\* failAt-th call or when Lattigo refuses it (refused).
Issue(e, name, k, refused) ==
  [e EXCEPT !.trace = Append(@, <<name, k>>),
            !.failed = IF @ = 0 /\ (e.failAt = Len(e.trace) + 1 \/ refused)
                       THEN Len(e.trace) + 1 ELSE @]

BackendFailed(e, e1) == e1.failed # e.failed

\* e.stats.mu.Lock(); e.stats.<counter>++; e.stats.mu.Unlock()
Count(e, counter) == [e EXCEPT !.stats[counter] = @ + 1]

(***************************************************************************)
(* The evaluator facade, pkg/he/evaluator.go.                              *)
(***************************************************************************)
Reset(s) == ZeroStats

NeedsBootstrap(c) == c.level <= minLevel

CanBootstrap == bootstrapper

Bootstrap(e, c) ==
  IF ~bootstrapper
  THEN Out(e, NilCt, <<"bootstrapping not available">>)
  ELSE LET e1 == Issue(e, "Bootstrap", c.level, FALSE)
       IN IF BackendFailed(e, e1)
          THEN Out(e1, NilCt, Wrap("bootstrap failed", BackendErr))
          ELSE Out(Count(e1, "BootstrapCount"), Ct(MaxLevel, c.vals), NoErr)

\* Variant: bootstraps whenever the level is low, bootstrapper or not.
MaybeBootstrap_Unchecked(e, c) ==
  IF NeedsBootstrap(c) THEN Bootstrap(e, c) ELSE Out(e, c, NoErr)

MaybeBootstrap(e, c) ==
  IF NeedsBootstrap(c) /\ CanBootstrap
  THEN Bootstrap(e, c)
  ELSE Out(e, c, NoErr)

PointAdd(v, w) == [i \in 1..Min(Len(v), Len(w)) |-> v[i] + w[i]]
PointSub(v, w) == [i \in 1..Min(Len(v), Len(w)) |-> v[i] - w[i]]
PointMul(v, w) == [i \in 1..Min(Len(v), Len(w)) |-> v[i] * w[i]]
RotateVals(v, k) == [i \in 1..Len(v) |-> v[((i - 1 + k) % Len(v)) + 1]]

Add(e, op0, op1) ==
  LET e1 == Issue(e, "Add", 0, FALSE)
  IN IF BackendFailed(e, e1)
     THEN Out(e1, NilCt, Wrap("add failed", BackendErr))
     ELSE Out(Count(e1, "AddCount"),
              Ct(Min(op0.level, op1.level), PointAdd(op0.vals, op1.vals)),
              NoErr)

\* AddInPlace returns only an error; ct is op0 after the call (untouched when
\* the backend fails).
AddInPlace(e, op0, op1) ==
  LET e1 == Issue(e, "AddInPlace", 0, FALSE)
  IN IF BackendFailed(e, e1)
     THEN Out(e1, op0, Wrap("add in place failed", BackendErr))
     ELSE Out(Count(e1, "AddCount"),
              Ct(Min(op0.level, op1.level), PointAdd(op0.vals, op1.vals)),
              NoErr)

\* Variant: a subtraction that is not counted.
Sub_Uncounted(e, op0, op1) ==
  LET e1 == Issue(e, "Sub", 0, FALSE)
  IN IF BackendFailed(e, e1)
     THEN Out(e1, NilCt, Wrap("sub failed", BackendErr))
     ELSE Out(e1, Ct(Min(op0.level, op1.level), PointSub(op0.vals, op1.vals)),
              NoErr)

Sub(e, op0, op1) ==
  LET e1 == Issue(e, "Sub", 0, FALSE)
  IN IF BackendFailed(e, e1)
     THEN Out(e1, NilCt, Wrap("sub failed", BackendErr))
     ELSE Out(Count(e1, "AddCount"),
              Ct(Min(op0.level, op1.level), PointSub(op0.vals, op1.vals)),
              NoErr)

Mul(e, op0, op1) ==
  LET e1 == Issue(e, "Mul", 0, FALSE)
  IN IF BackendFailed(e, e1)
     THEN Out(e1, NilCt, Wrap("mul failed", BackendErr))
     ELSE Out(Count(e1, "MulCount"),
              Ct(Min(op0.level, op1.level), PointMul(op0.vals, op1.vals)),
              NoErr)

\* The plaintext is encoded at the ciphertext's level.
MulPlaintext(e, c) ==
  LET e1 == Issue(e, "MulPlaintext", 0, FALSE)
  IN IF BackendFailed(e, e1)
     THEN Out(e1, NilCt, Wrap("mul plaintext failed", BackendErr))
     ELSE Out(Count(e1, "MulCount"), c, NoErr)

MulConst(e, c, const) ==
  LET e1 == Issue(e, "MulConst", 0, FALSE)
  IN IF BackendFailed(e, e1)
     THEN Out(e1, NilCt, Wrap("mul const failed", BackendErr))
     ELSE Out(Count(e1, "MulCount"),
              Ct(c.level, [i \in 1..Len(c.vals) |-> c.vals[i] * const]),
              NoErr)

AddConst(e, c, const) ==
  LET e1 == Issue(e, "AddConst", 0, FALSE)
  IN IF BackendFailed(e, e1)
     THEN Out(e1, NilCt, Wrap("add const failed", BackendErr))
     ELSE Out(Count(e1, "AddCount"),
              Ct(c.level, [i \in 1..Len(c.vals) |-> c.vals[i] + const]),
              NoErr)

\* Variant: the error of the backend's Rescale is not looked at.
Rescale_Unchecked(e, c) ==
  Out(Count(Issue(e, "Rescale", 0, FALSE), "RescaleCount"),
      Ct(c.level - 1, c.vals), NoErr)

\* Lattigo's Rescale refuses a ciphertext at level 0 and otherwise drops one
\* level.
Rescale(e, c) ==
  LET e1 == Issue(e, "Rescale", 0, c.level = 0)
  IN IF BackendFailed(e, e1)
     THEN Out(e1, NilCt, Wrap("rescale failed", BackendErr))
     ELSE Out(Count(e1, "RescaleCount"), Ct(c.level - 1, c.vals), NoErr)

\* Variant: a rotation that hands back a ciphertext at the top level.
Rotate_Refreshing(e, c, k) ==
  LET e1 == Issue(e, "Rotate", k, FALSE)
  IN IF BackendFailed(e, e1)
     THEN Out(e1, NilCt, Wrap("rotate failed", BackendErr))
     ELSE Out(Count(e1, "RotateCount"), Ct(MaxLevel, RotateVals(c.vals, k)),
              NoErr)

Rotate(e, c, k) ==
  LET e1 == Issue(e, "Rotate", k, FALSE)
  IN IF BackendFailed(e, e1)
     THEN Out(e1, NilCt, Wrap("rotate failed", BackendErr))
     ELSE Out(Count(e1, "RotateCount"), Ct(c.level, RotateVals(c.vals, k)),
              NoErr)

(***************************************************************************)
(* Error handling of a caller.  The result of a call is bound once and     *)
(* then inspected, as the code binds it to a variable.                     *)
(***************************************************************************)
\* Variant: an error of a call is ignored and its result returned.
Fail_Swallowed(r, ctx) == Out(r.env, r.ct, NoErr)

\* return nil, fmt.Errorf("ctx: %w", err); a panic unwinds through the caller
\* unwrapped.
Fail(r, ctx) ==
  Out(r.env, NilCt, IF r.err = Panic THEN Panic ELSE Wrap(ctx, r.err))

\* v, err := call; if err != nil { return nil, fmt.Errorf("ctx: %w", err) }
\* and then the rest of the function with v.
Try(call, ctx, Rest(_)) ==
  CHOOSE out \in {IF r.err # NoErr THEN Fail(r, ctx) ELSE Rest(r) :
                    r \in {call}} : TRUE

\* v, err := call; if err != nil { return nil, err } and then the rest.
Pass(call, Rest(_)) ==
  CHOOSE out \in {IF r.err # NoErr THEN Out(r.env, NilCt, r.err) ELSE Rest(r) :
                    r \in {call}} : TRUE

\* SumSlots: for rot := 1; rot < slots; rot *= 2 { Rotate; AddInPlace }.
SumSlotsContinue(rot) == rot < slots
\* Variant: the rotation amount grows by one instead of doubling.
SumSlotsNextRot_Linear(rot) == rot + 1
SumSlotsNextRot(rot) == rot * 2

RECURSIVE SumSlotsLoop(_, _, _)
SumSlotsLoop(e, result, rot) ==
  IF ~SumSlotsContinue(rot)
  THEN Out(e, result, NoErr)
  ELSE Try(Rotate(e, result, rot), "sum slots rotation failed",
         LAMBDA rotated :
       Try(AddInPlace(rotated.env, result, rotated.ct), "sum slots add failed",
         LAMBDA sum :
       SumSlotsLoop(sum.env, sum.ct, SumSlotsNextRot(rot))))

\* ct.CopyNew() on a nil ciphertext dereferences nil.
SumSlots(e, c) ==
  IF c = NilCt THEN Out(e, NilCt, Panic) ELSE SumSlotsLoop(e, c, 1)

\* Power: binary exponentiation, Mul then Rescale for every product.
\* if power&1 == 1 { if first { result = base } else { Mul; Rescale } }
PowerResult(e, result, base, power, first) ==
  IF power % 2 = 1
  THEN IF first
       THEN Out(e, base, NoErr)
       ELSE Pass(Mul(e, result, base), LAMBDA m : Rescale(m.env, m.ct))
  ELSE Out(e, result, NoErr)

RECURSIVE PowerLoop(_, _, _, _, _)
PowerLoop(e, result, base, power, first) ==
  IF ~(power > 0)
  THEN Out(e, result, NoErr)
  ELSE Pass(PowerResult(e, result, base, power, first), LAMBDA r1 :
       IF power \div 2 > 0
       THEN Pass(Mul(r1.env, base, base), LAMBDA m2 :
            Pass(Rescale(m2.env, m2.ct), LAMBDA r2 :
            PowerLoop(r2.env, r1.ct, r2.ct, power \div 2,
                      first /\ power % 2 # 1)))
       ELSE PowerLoop(r1.env, r1.ct, base, power \div 2,
                      first /\ power % 2 # 1))

Power(e, c, n) ==
  IF n < 1
  THEN Out(e, NilCt, <<"power must be positive">>)
  ELSE IF n = 1
       THEN Out(e, c, NoErr)
       ELSE PowerLoop(e, c, c, n, TRUE)

\* ZeroCiphertextLike: a fresh ciphertext of zeros at x's level.
ZeroCiphertextLike(x) == Ct(x.level, [i \in 1..Len(x.vals) |-> 0])

(***************************************************************************)
(* The operators.  A block list is a sequence of ciphertexts; the slot     *)
(* values of operator inputs are not modelled (vals = <<>>), so a constant *)
(* that is not an integer is passed by name.                               *)
(***************************************************************************)
\* if result == nil { result = masked } else { AddInPlace(result, masked) }
Accumulate(e, result, masked) ==
  IF result = NilCt THEN Out(e, masked, NoErr)
  ELSE AddInPlace(e, result, masked)

\* Variant: the product is handed on without a rescale.
MulRescale_Unrescaled(e, a, b, mulCtx, rescaleCtx) ==
  Try(Mul(e, a, b), mulCtx, LAMBDA m : m)

\* Mul followed by Rescale, each with its own error return.
MulRescale(e, a, b, mulCtx, rescaleCtx) ==
  Try(Mul(e, a, b), mulCtx, LAMBDA m :
  Try(Rescale(m.env, m.ct), rescaleCtx, LAMBDA r : r))

(***************************************************************************)
(* pkg/ops/numeric.                                                        *)
(***************************************************************************)
RECURSIVE MaskedSumLoop(_, _, _, _, _)
MaskedSumLoop(e, xBlocks, vBlocks, i, result) ==
  IF i > Len(xBlocks)
  THEN SumSlots(e, result)
  ELSE Pass(MulRescale(e, xBlocks[i], vBlocks[i],
                       "block mul failed", "block rescale failed"),
         LAMBDA masked :
       Try(Accumulate(masked.env, result, masked.ct), "block add failed",
         LAMBDA a :
       MaskedSumLoop(a.env, xBlocks, vBlocks, i + 1, a.ct)))

MaskedSum(e, xBlocks, vBlocks) ==
  IF Len(xBlocks) # Len(vBlocks)
  THEN Out(e, NilCt, <<"block count mismatch">>)
  ELSE IF Len(xBlocks) = 0
       THEN Out(e, NilCt, <<"no blocks provided">>)
       ELSE MaskedSumLoop(e, xBlocks, vBlocks, 1, NilCt)

\* NumericOp.Count: the blocks added up, then summed across the slots.
RECURSIVE NumericCountLoop(_, _, _, _)
NumericCountLoop(e, vBlocks, i, result) ==
  IF i > Len(vBlocks)
  THEN SumSlots(e, result)
  ELSE Try(Accumulate(e, result, vBlocks[i]), "block add failed", LAMBDA a :
       NumericCountLoop(a.env, vBlocks, i + 1, a.ct))

NumericCount(e, vBlocks) ==
  IF Len(vBlocks) = 0
  THEN Out(e, NilCt, <<"no blocks provided">>)
  ELSE NumericCountLoop(e, vBlocks, 1, NilCt)

RECURSIVE MaskedSumOfSquaresLoop(_, _, _, _, _)
MaskedSumOfSquaresLoop(e, xBlocks, vBlocks, i, result) ==
  IF i > Len(xBlocks)
  THEN SumSlots(e, result)
  ELSE Pass(MulRescale(e, xBlocks[i], xBlocks[i],
                       "block square failed", "block rescale1 failed"),
         LAMBDA xSquared :
       Pass(MulRescale(xSquared.env, xSquared.ct, vBlocks[i],
                       "block mask failed", "block rescale2 failed"),
         LAMBDA masked :
       Try(Accumulate(masked.env, result, masked.ct), "block add failed",
         LAMBDA a :
       MaskedSumOfSquaresLoop(a.env, xBlocks, vBlocks, i + 1, a.ct))))

MaskedSumOfSquares(e, xBlocks, vBlocks) ==
  IF Len(xBlocks) # Len(vBlocks)
  THEN Out(e, NilCt, <<"block count mismatch">>)
  ELSE IF Len(xBlocks) = 0
       THEN Out(e, NilCt, <<"no blocks provided">>)
       ELSE MaskedSumOfSquaresLoop(e, xBlocks, vBlocks, 1, NilCt)

RECURSIVE MaskedCrossSumLoop(_, _, _, _, _, _)
MaskedCrossSumLoop(e, xBlocks, yBlocks, vBlocks, i, result) ==
  IF i > Len(xBlocks)
  THEN SumSlots(e, result)
  ELSE Pass(MulRescale(e, xBlocks[i], yBlocks[i],
                       "block xy mul failed", "block xy rescale failed"),
         LAMBDA xy :
       Pass(MulRescale(xy.env, xy.ct, vBlocks[i],
                       "block mask failed", "block masked rescale failed"),
         LAMBDA masked :
       Try(Accumulate(masked.env, result, masked.ct), "block add failed",
         LAMBDA a :
       MaskedCrossSumLoop(a.env, xBlocks, yBlocks, vBlocks, i + 1, a.ct))))

MaskedCrossSum(e, xBlocks, yBlocks, vBlocks) ==
  IF Len(xBlocks) # Len(yBlocks) \/ Len(xBlocks) # Len(vBlocks)
  THEN Out(e, NilCt, <<"block count mismatch">>)
  ELSE IF Len(xBlocks) = 0
       THEN Out(e, NilCt, <<"no blocks provided">>)
       ELSE MaskedCrossSumLoop(e, xBlocks, yBlocks, vBlocks, 1, NilCt)

INVNTHSQRTConfig(n, iterations, frequency) ==
  [N |-> n, Iterations |-> iterations, BootstrapFrequency |-> frequency]

DefaultINVConfig == INVNTHSQRTConfig(1, 25, 5)

\* The periodic bootstrap at the head of an iteration: a direct Bootstrap
\* call, made whether or not a bootstrapper is available.
NewtonPeriodic(e, yCt, config, iter) ==
  IF /\ config.BootstrapFrequency > 0
     /\ iter > 0
     /\ iter % config.BootstrapFrequency = 0
     /\ NeedsBootstrap(yCt)
  THEN Bootstrap(e, yCt)
  ELSE Out(e, yCt, NoErr)

\* y^n: a copy of y for n = 1, Power otherwise.
NewtonPower(e, yCt, config) ==
  IF config.N = 1 THEN Out(e, yCt, NoErr) ELSE Power(e, yCt, config.N)

\* The body of one Newton iteration after the periodic bootstrap:
\* y <- (y * ((n+1) - x * y^n)) / n.
NewtonStep(e, x, yCt, config) ==
  Try(NewtonPower(e, yCt, config), "iteration power failed", LAMBDA yN :
  Pass(MulRescale(yN.env, x, yN.ct, "iteration mul x*yN failed",
                  "iteration rescale failed"), LAMBDA xyN :
  Try(MaybeBootstrap(xyN.env, xyN.ct), "iteration bootstrap xyN failed",
    LAMBDA b1 :
  Try(AddConst(b1.env, b1.ct, -(config.N + 1)), "iteration sub failed",
    LAMBDA d1 :
  Try(MulConst(d1.env, d1.ct, -1), "iteration negate failed", LAMBDA diff :
  Pass(MulRescale(diff.env, yCt, diff.ct, "iteration mul y*diff failed",
                  "iteration final rescale failed"), LAMBDA yNew :
  Try(MaybeBootstrap(yNew.env, yNew.ct), "iteration bootstrap yNew failed",
    LAMBDA b2 :
  Try(MulConst(b2.env, b2.ct, "1/n"), "iteration div by n failed",
    LAMBDA y1 : y1))))))))

\* Variant: x is bootstrapped anew at the head of every pass.
NewtonIteration_RefreshingX(e, x, yCt, config, iter) ==
  Try(Bootstrap(e, x), "iteration bootstrap x failed", LAMBDA xb :
  Try(NewtonPeriodic(xb.env, yCt, config, iter), "iteration bootstrap failed",
    LAMBDA b : NewtonStep(b.env, xb.ct, b.ct, config)))

\* One pass through the loop body: the periodic bootstrap, then the step.
NewtonIteration(e, x, yCt, config, iter) ==
  Try(NewtonPeriodic(e, yCt, config, iter), "iteration bootstrap failed",
    LAMBDA b : NewtonStep(b.env, x, b.ct, config))

\* for iter := 0; iter < config.Iterations; iter++ { ... }: y after the first
\* n passes, or the error of the pass that failed.
RECURSIVE NewtonLoop(_, _, _, _, _)
NewtonLoop(e, x, yCt, config, n) ==
  IF n <= 0
  THEN Out(e, yCt, NoErr)
  ELSE Pass(NewtonLoop(e, x, yCt, config, n - 1), LAMBDA y :
       NewtonIteration(y.env, x, y.ct, config, n - 1))

INVNTHSQRT(e, x0, config) ==
  IF config.N < 1
  THEN Out(e, NilCt, <<"n must be positive">>)
  ELSE Try(MaybeBootstrap(e, x0), "initial bootstrap failed", LAMBDA x :
       Try(AddConst(x.env, ZeroCiphertextLike(x.ct), "InitialGuess"),
           "initial y setup failed", LAMBDA yCt :
       NewtonLoop(yCt.env, x.ct, yCt.ct, config, config.Iterations)))

(***************************************************************************)
(* pkg/ops/approx.                                                         *)
(***************************************************************************)
DefaultApproxSignIterations == 3

\* One refinement s <- s * (3 - s^2) / 2.
ApproxSignStep(e, result) ==
  Pass(MulRescale(e, result, result, "iter s^2 failed",
                  "iter s^2 rescale failed"), LAMBDA s2 :
  Try(MulConst(s2.env, s2.ct, -1), "iter -s^2 failed", LAMBDA n1 :
  Try(AddConst(n1.env, n1.ct, 3), "iter 3-s^2 failed", LAMBDA t :
  Pass(MulRescale(t.env, result, t.ct, "iter mul failed",
                  "iter rescale failed"), LAMBDA m :
  Try(MulConst(m.env, m.ct, "1/2"), "iter /2 failed", LAMBDA h :
  Try(MaybeBootstrap(h.env, h.ct), "iter bootstrap failed",
    LAMBDA b : b))))))

RECURSIVE ApproxSignLoop(_, _, _, _)
ApproxSignLoop(e, result, iterations, i) ==
  IF ~(i < iterations)
  THEN Out(e, result, NoErr)
  ELSE Pass(ApproxSignStep(e, result), LAMBDA r :
       ApproxSignLoop(r.env, r.ct, iterations, i + 1))

APPROXSIGN(e, x, iterations) == ApproxSignLoop(e, x, iterations, 0)

\* ChebyshevCoeffs: the degree, and the indices k >= 1 whose coefficient in
\* standard form is smaller than 1e-15 (the floating-point values of the
\* coefficients are not modelled).
ChebyshevCoeffs(degree, negligible) ==
  [Degree |-> degree, Negligible |-> negligible]

\* The power cache: powers[i] for i = 2..degree, by halving for even i and
\* from powers[i-1] for odd i, each rescaled and bootstrapped when needed.
RECURSIVE ChebyshevPowers(_, _, _, _)
ChebyshevPowers(e, powers, degree, i) ==
  IF ~(i <= degree)
  THEN Out(e, powers, NoErr)
  ELSE Pass(MulRescale(e, IF i % 2 = 0 THEN powers[i \div 2] ELSE powers[i - 1],
                       IF i % 2 = 0 THEN powers[i \div 2] ELSE powers[1],
                       "power mul failed", "power rescale failed"), LAMBDA p :
       Try(MaybeBootstrap(p.env, p.ct), "power bootstrap failed", LAMBDA b :
       ChebyshevPowers(b.env, Append(powers, b.ct), degree, i + 1)))

\* c_1*x + c_2*x^2 + ..., the negligible terms left out.
RECURSIVE ChebyshevTerms(_, _, _, _, _)
ChebyshevTerms(e, powers, coeffs, k, result) ==
  IF ~(k < coeffs.Degree + 1)
  THEN Out(e, result, NoErr)
  ELSE IF k \in coeffs.Negligible
  THEN ChebyshevTerms(e, powers, coeffs, k + 1, result)
  ELSE Try(MulConst(e, powers[k], "c_k"), "term mul const failed",
         LAMBDA term :
       Try(Accumulate(term.env, result, term.ct), "term add failed",
         LAMBDA a :
       ChebyshevTerms(a.env, powers, coeffs, k + 1, a.ct)))

EvaluateChebyshev(e, x, coeffs) ==
  IF coeffs.Degree = 0
  THEN AddConst(e, x, "c_0")
  ELSE Pass(ChebyshevPowers(e, <<x>>, coeffs.Degree, 2), LAMBDA powers :
       Pass(ChebyshevTerms(powers.env, powers.ct, coeffs, 1, NilCt),
         LAMBDA result :
       IF result.ct = NilCt
       THEN AddConst(result.env, x, "c_0 - 1")
       ELSE AddConst(result.env, result.ct, "c_0")))

\* p(s) = 4s^3 - 3s^4 = s^3 * (4 - 3s).
ApplyFilterPolynomial(e, s) ==
  Pass(MulRescale(e, s, s, "s^2 failed", "s^2 rescale failed"), LAMBDA s2 :
  Pass(MulRescale(s2.env, s2.ct, s, "s^3 failed", "s^3 rescale failed"),
    LAMBDA s3 :
  Try(MulConst(s3.env, s, -3), "-3s failed", LAMBDA neg3s :
  Try(AddConst(neg3s.env, neg3s.ct, 4), "4-3s failed", LAMBDA fourMinus3s :
  Try(Mul(fourMinus3s.env, s3.ct, fourMinus3s.ct), "final mul failed",
    LAMBDA result :
  Rescale(result.env, result.ct))))))

DEZConfig(sf, k) == [Sf |-> sf, K |-> k]

SincDegree == 16

\* Step 3: for i := 1; i < config.K; i++ { result = result * sinc }.
RECURSIVE SharpenLoop(_, _, _, _, _)
SharpenLoop(e, result, sinc, config, i) ==
  IF ~(i < config.K)
  THEN Out(e, result, NoErr)
  ELSE Pass(MulRescale(e, result, sinc, "sinc^i mul failed",
                       "sinc^i rescale failed"), LAMBDA r :
       Try(MaybeBootstrap(r.env, r.ct), "sinc^i bootstrap failed", LAMBDA b :
       SharpenLoop(b.env, b.ct, sinc, config, i + 1)))

\* negligible: the negligible coefficients of ComputeSincCoeffs(16).
DISCRETEEQUALZERO(e, x, config, negligible) ==
  Try(MulConst(e, x, "1/2^d"), "normalize failed", LAMBDA n :
  Try(MaybeBootstrap(n.env, n.ct), "normalize bootstrap failed",
    LAMBDA normalized :
  Try(EvaluateChebyshev(normalized.env, normalized.ct,
                        ChebyshevCoeffs(SincDegree, negligible)),
      "sinc eval failed", LAMBDA sinc :
  Pass(SharpenLoop(sinc.env, sinc.ct, sinc.ct, config, 1), LAMBDA result :
  Try(ApplyFilterPolynomial(result.env, result.ct), "filter failed",
    LAMBDA filtered : filtered)))))

(***************************************************************************)
(* Stores of encoded blocks (the driver's adapters over the table store):  *)
(* BlockCount() is the table's block count, Get loads block b from its     *)
(* file and fails when the file is not there.                              *)
(***************************************************************************)
Store(blockCount, stored, level) ==
  [blockCount |-> blockCount, stored |-> stored, level |-> level]

\* A store whose blocks hold the given slot vectors.
StoreOf(blocks, level) ==
  [blockCount |-> Len(blocks), stored |-> Len(blocks), level |-> level,
   blocks |-> blocks]

StoredVals(store, b) ==
  IF "blocks" \in DOMAIN store THEN store.blocks[b + 1] ELSE <<>>

StoreGet(e, store, b) ==
  IF b < store.stored
  THEN Out(e, Ct(store.level, StoredVals(store, b)), NoErr)
  ELSE Out(e, NilCt, <<"load failed">>)

\* TableMetadata.BlockCount for rowCount rows.
BlockCountOf(rowCount, slotCount) == (rowCount + slotCount - 1) \div slotCount

\* validityBlocks[b]: indexing past the end of a slice panics.
Index(e, blocks, b) ==
  IF b < Len(blocks) THEN Out(e, blocks[b + 1], NoErr)
  ELSE Out(e, NilCt, Panic)

(***************************************************************************)
(* pkg/ops/categorical.                                                    *)
(***************************************************************************)
\* The mask of one block: validity times the BMV of every condition.
RECURSIVE BuildMaskConditions(_, _, _, _, _, _)
BuildMaskConditions(e, mask, conditions, j, bmvStore, b) ==
  IF j > conditions
  THEN Out(e, mask, NoErr)
  ELSE Try(StoreGet(e, bmvStore, b), "failed to get BMV", LAMBDA bmv :
       Pass(MulRescale(bmv.env, mask, bmv.ct, "block mul failed",
                       "block rescale failed"), LAMBDA m :
       BuildMaskConditions(m.env, m.ct, conditions, j + 1, bmvStore, b)))

RECURSIVE BuildMaskLoop(_, _, _, _, _, _)
BuildMaskLoop(e, validityBlocks, conditions, bmvStore, b, masks) ==
  IF ~(b < Len(validityBlocks))
  THEN Out(e, [masks |-> masks], NoErr)
  ELSE Pass(BuildMaskConditions(e, validityBlocks[b + 1], conditions, 1,
                                bmvStore, b), LAMBDA m :
       BuildMaskLoop(m.env, validityBlocks, conditions, bmvStore, b + 1,
                     Append(masks, m.ct)))

BuildMask(e, validityBlocks, conditions, bmvStore) ==
  BuildMaskLoop(e, validityBlocks, conditions, bmvStore, 0, <<>>)

\* Bin count: the masks of the blocks, counted.
Bc(e, validityBlocks, conditions, bmvStore) ==
  Try(BuildMask(e, validityBlocks, conditions, bmvStore), "build mask failed",
    LAMBDA masks :
  NumericCount(masks.env, masks.ct.masks))

LBcConfig(delta, deltaOffset, lambdaBig) ==
  [Delta |-> delta, DeltaOffset |-> deltaOffset, LambdaBig |-> lambdaBig]

DefaultLBcConfig == LBcConfig(10, 10, 30)

MantissaBits == 52

ValidateLBcConfig(config, categories) ==
  LET maxExp == config.DeltaOffset + config.Delta * (categories - 1)
  IN IF maxExp > MantissaBits
     THEN <<"PBMV exponent overflow">>
     ELSE IF config.LambdaBig > MantissaBits
          THEN <<"BBMV Lambda too big">>
          ELSE NoErr

RECURSIVE Log2(_)
Log2(n) == IF n <= 1 THEN 0 ELSE 1 + Log2(n \div 2)

\* Go's int: 64 bits, two's complement, wrapping.
IntBits == 64

\* blockCount*rowsPerBlock > slots*(1<<Delta) with rowsPerBlock = slots, in
\* wrapping 64-bit arithmetic.  slots is 2^k, so slots*(1<<Delta) is 2^(k+Delta)
\* when k+Delta < 63, the most negative int when k+Delta = 63, and 0 beyond
\* (1<<Delta is 0 from Delta = 64 on).  The left side never wraps for the
\* block counts of a table.
RequiresAggregation(blockCount, delta) ==
  LET k == Log2(slots)
  IN IF k + delta >= IntBits THEN blockCount * slots > 0
     ELSE IF k + delta = IntBits - 1 THEN TRUE
     ELSE IF delta > 30 THEN FALSE
     ELSE blockCount > Pow2(delta)

\* store, ok := bbmvStores[col]; if !ok { return nil, fmt.Errorf(...) }
LookupStore(e, bbmvStores, col) ==
  IF col \in bbmvStores.columns
  THEN Out(e, bbmvStores.store, NoErr)
  ELSE Out(e, NilCt, <<"no BBMV store for column">>)

\* The BBMV factors of one block, one per secondary column.
RECURSIVE LBcColumns(_, _, _, _, _, _)
LBcColumns(e, result, otherColumns, j, bbmvStores, b) ==
  IF j > Len(otherColumns)
  THEN Out(e, result, NoErr)
  ELSE Pass(LookupStore(e, bbmvStores, otherColumns[j]), LAMBDA store :
       Try(StoreGet(store.env, store.ct, b), "failed to get BBMV",
         LAMBDA bbmv :
       Pass(MulRescale(bbmv.env, result, bbmv.ct, "block column mul failed",
                       "block column rescale failed"), LAMBDA m :
       LBcColumns(m.env, m.ct, otherColumns, j + 1, bbmvStores, b))))

RECURSIVE LBcBlocks(_, _, _, _, _, _, _)
LBcBlocks(e, pbmvStore, otherColumns, bbmvStores, validityBlocks, b, results) ==
  IF ~(b < pbmvStore.blockCount)
  THEN Out(e, [results |-> results], NoErr)
  ELSE Try(StoreGet(e, pbmvStore, b), "failed to get PBMV", LAMBDA pbmv :
       Pass(Index(pbmv.env, validityBlocks, b), LAMBDA v :
       Pass(MulRescale(v.env, pbmv.ct, v.ct, "block validity mul failed",
                       "block validity rescale failed"), LAMBDA result :
       Pass(LBcColumns(result.env, result.ct, otherColumns, 1, bbmvStores, b),
         LAMBDA c :
       LBcBlocks(c.env, pbmvStore, otherColumns, bbmvStores, validityBlocks,
                 b + 1, Append(results, c.ct))))))

\* Variant: the blocks are not summed, the last one is the packed result.
LBcPack_Unsummed(e, results, i, packed) ==
  Out(e, IF results = <<>> THEN NilCt ELSE results[Len(results)], NoErr)

\* Sum across blocks.
RECURSIVE LBcPack(_, _, _, _)
LBcPack(e, results, i, packed) ==
  IF i > Len(results)
  THEN Out(e, packed, NoErr)
  ELSE Try(Accumulate(e, packed, results[i]), "block sum failed", LAMBDA a :
       LBcPack(a.env, results, i + 1, a.ct))

\* A negative shift count panics.
LBcResult(e, config, blockCount, packed) ==
  IF config.Delta < 0
  THEN Out(e, NilCt, Panic)
  ELSE Out(e, [PackedResults |-> <<packed>>,
               NumBlocks |-> blockCount,
               RowsPerBlock |-> slots,
               RequiresAggregation |->
                 RequiresAggregation(blockCount, config.Delta)],
           NoErr)

ComputeLBc(e, config, pbmvStore, otherColumns, bbmvStores, validityBlocks) ==
  Pass(LBcBlocks(e, pbmvStore, otherColumns, bbmvStores, validityBlocks, 0,
                 <<>>), LAMBDA blocks :
  Pass(LBcPack(blocks.env, blocks.ct.results, 1, NilCt), LAMBDA packed :
  LBcResult(packed.env, config, pbmvStore.blockCount, packed.ct)))

(***************************************************************************)
(* pkg/ops/ordinal.                                                        *)
(***************************************************************************)
\* f(x) = -0.5x^2 + 0.5x + 1.
applyFlipMapping(e, x) ==
  Pass(MulRescale(e, x, x, "x^2 failed", "x^2 rescale failed"), LAMBDA x2 :
  Try(MulConst(x2.env, x2.ct, "-1/2"), "-0.5x^2 failed", LAMBDA term1 :
  Try(MulConst(term1.env, x, "1/2"), "0.5x failed", LAMBDA term2 :
  Try(Add(term2.env, term1.ct, term2.ct), "term1+term2 failed", LAMBDA sum :
  Try(AddConst(sum.env, sum.ct, 1), "+1 failed", LAMBDA r : r)))))

\* Step 1, inner loop: the masked BMV blocks of one value, summed.
RECURSIVE PercentileBlocks(_, _, _, _, _)
PercentileBlocks(e, validityBlocks, bmvStore, b, sum) ==
  IF ~(b < bmvStore.blockCount)
  THEN Out(e, sum, NoErr)
  ELSE Try(StoreGet(e, bmvStore, b), "failed to get BMV", LAMBDA bmv :
       Pass(Index(bmv.env, validityBlocks, b), LAMBDA v :
       Pass(MulRescale(v.env, bmv.ct, v.ct, "value block mul failed",
                       "value block rescale failed"), LAMBDA masked :
       Try(Accumulate(masked.env, sum, masked.ct), "value block add failed",
         LAMBDA a :
       PercentileBlocks(a.env, validityBlocks, bmvStore, b + 1, a.ct)))))

\* Step 1: the frequency of every value.
RECURSIVE PercentileFreqs(_, _, _, _, _, _)
PercentileFreqs(e, validityBlocks, bmvStore, categories, v, freqs) ==
  IF ~(v <= categories)
  THEN Out(e, freqs, NoErr)
  ELSE Pass(PercentileBlocks(e, validityBlocks, bmvStore, 0, NilCt),
         LAMBDA sum :
       Try(SumSlots(sum.env, sum.ct), "value sum slots failed", LAMBDA freq :
       PercentileFreqs(freq.env, validityBlocks, bmvStore, categories, v + 1,
                       Append(freqs, freq.ct))))

\* Step 2: the cumulative histogram; cumul[0] = freqs[0] indexes out of range
\* when config.Categories = 0.
RECURSIVE PercentileCumulLoop(_, _, _, _)
PercentileCumulLoop(e, freqs, i, cumul) ==
  IF ~(i < Len(freqs))
  THEN Out(e, cumul, NoErr)
  ELSE Try(Add(e, cumul[i], freqs[i + 1]), "cumul add failed", LAMBDA c :
       PercentileCumulLoop(c.env, freqs, i + 1, Append(cumul, c.ct)))

PercentileCumul(e, freqs) ==
  Pass(Index(e, freqs, 0), LAMBDA first :
  PercentileCumulLoop(first.env, freqs, 1, <<first.ct>>))

\* Step 4: the indicator of every bucket.
RECURSIVE PercentileIndicators(_, _, _, _, _)
PercentileIndicators(e, cumul, invR, i, indicators) ==
  IF ~(i < Len(cumul))
  THEN Out(e, indicators, NoErr)
  ELSE Pass(MulRescale(e, cumul[i + 1], invR, "ratio mul failed",
                       "ratio rescale failed"), LAMBDA ratio :
       Try(AddConst(ratio.env, ratio.ct, "-k/100"), "diff failed",
         LAMBDA diff :
       Try(APPROXSIGN(diff.env, diff.ct, DefaultApproxSignIterations),
           "sign failed", LAMBDA sign :
       Try(applyFlipMapping(sign.env, sign.ct), "flip failed", LAMBDA ind :
       PercentileIndicators(ind.env, cumul, invR, i + 1,
                            Append(indicators, ind.ct))))))

\* Step 5: the number of buckets below the threshold.
RECURSIVE PercentileBelow(_, _, _, _)
PercentileBelow(e, indicators, i, belowCount) ==
  IF ~(i < Len(indicators))
  THEN Out(e, belowCount, NoErr)
  ELSE Try(MulConst(e, indicators[i + 1], -1), "neg indicator failed",
         LAMBDA n1 :
       Try(AddConst(n1.env, n1.ct, 1), "1-indicator failed", LAMBDA notInd :
       Try(Accumulate(notInd.env, belowCount, notInd.ct),
           "sum indicators failed", LAMBDA a :
       PercentileBelow(a.env, indicators, i + 1, a.ct))))

Percentile(e, validityBlocks, bmvStore, categories) ==
  Pass(PercentileFreqs(e, validityBlocks, bmvStore, categories, 1, <<>>),
    LAMBDA freqs :
  Pass(PercentileCumul(freqs.env, freqs.ct), LAMBDA cumul :
  Try(INVNTHSQRT(cumul.env, cumul.ct[categories], DefaultINVConfig),
      "inv R failed", LAMBDA invR :
  Pass(PercentileIndicators(invR.env, cumul.ct, invR.ct, 0, <<>>),
    LAMBDA indicators :
  Pass(PercentileBelow(indicators.env, indicators.ct, 0, NilCt),
    LAMBDA belowCount :
  Try(AddConst(belowCount.env, belowCount.ct, 1), "final add 1 failed",
    LAMBDA result : result))))))

(***************************************************************************)
(* SpecFacade: a caller makes a sequence of facade calls on one evaluator. *)
(* Each call takes its operands among the ciphertexts in the caller's      *)
(* hands (the last argument and the last result) and is logged.            *)
(***************************************************************************)
Levels == 0..MaxLevel
SlotCounts == {Pow2(k) : k \in 0..MaxLogSlots}
FailPoints == 0..(2 * MaxLogSlots)

EvalInit ==
  /\ stats = ZeroStats
  \* NewEvaluator: minLevel is 2 without a bootstrapper, and the
  \* bootstrapper's MinimumInputLevel() with one.
  /\ bootstrapper \in BOOLEAN
  /\ minLevel \in (IF bootstrapper THEN 0..(MaxLevel - 1) ELSE {DefaultMinLevel})
  /\ slots \in SlotCounts

\* No goroutine besides the caller.
ConcIdle ==
  /\ mu = 0
  /\ wk = <<>>
  /\ done = ZeroStats

LogInit ==
  /\ ret = NilCt
  /\ err = NoErr
  /\ lastOp = "none"
  /\ before = ZeroStats
  /\ trace = <<>>
  /\ failed = 0
  /\ calls = 0

FacadeInit ==
  /\ EvalInit
  /\ LogInit
  /\ arg \in {Ct(l, <<>>) : l \in Levels}
  /\ inp = <<>>
  /\ ConcIdle

Operands == {arg} \cup (IF ret = NilCt THEN {} ELSE {ret})

\* One logged call with result r.
LogCall(name, call) == calls < MaxCalls /\ \E r \in {call} :
  /\ stats' = r.env.stats
  /\ ret' = r.ct
  /\ err' = r.err
  /\ lastOp' = name
  /\ before' = stats
  /\ trace' = r.env.trace
  /\ failed' = r.env.failed
  /\ calls' = calls + 1
  /\ UNCHANGED <<bootstrapper, minLevel, slots, concVars>>

\* One logged facade call on operand c.
Logged(name, c, r) == LogCall(name, r) /\ arg' = c /\ UNCHANGED inp

\* One logged facade call on the operands c and d.
Logged2(name, c, d, r) == LogCall(name, r) /\ arg' = c /\ inp' = d

FAdd == \E c \in Operands, d \in Operands, f \in 0..1 :
  Logged2("Add", c, d, Add(Env(stats, f), c, d))
FAddInPlace == \E c \in Operands, d \in Operands, f \in 0..1 :
  Logged2("AddInPlace", c, d, AddInPlace(Env(stats, f), c, d))
FSub == \E c \in Operands, d \in Operands, f \in 0..1 :
  Logged2("Sub", c, d, Sub(Env(stats, f), c, d))
FMul == \E c \in Operands, d \in Operands, f \in 0..1 :
  Logged2("Mul", c, d, Mul(Env(stats, f), c, d))
FMulPlaintext == \E c \in Operands, f \in 0..1 :
  Logged("MulPlaintext", c, MulPlaintext(Env(stats, f), c))
FMulConst == \E c \in Operands, f \in 0..1 :
  Logged("MulConst", c, MulConst(Env(stats, f), c, 2))
FAddConst == \E c \in Operands, f \in 0..1 :
  Logged("AddConst", c, AddConst(Env(stats, f), c, 1))
FRescale == \E c \in Operands, f \in 0..1 :
  Logged("Rescale", c, Rescale(Env(stats, f), c))
FRotate == \E c \in Operands, k \in 0..MaxLogSlots, f \in 0..1 :
  Logged("Rotate", c, Rotate(Env(stats, f), c, Pow2(k)))
FSumSlots == \E c \in Operands, f \in FailPoints :
  Logged("SumSlots", c, SumSlots(Env(stats, f), c))
FPower == \E c \in Operands, n \in 0..3, f \in FailPoints :
  Logged("Power", c, Power(Env(stats, f), c, n))
FBootstrap == \E c \in Operands, f \in 0..1 :
  Logged("Bootstrap", c, Bootstrap(Env(stats, f), c))
FMaybeBootstrap == \E c \in Operands, f \in 0..1 :
  Logged("MaybeBootstrap", c, MaybeBootstrap(Env(stats, f), c))
\* NeedsBootstrap, EncodePlaintext/EncodeFloats/EncodeConstant and
\* DecodePlaintext/DecodeFloats return no ciphertext and no error and never
\* touch e.stats.
FNeedsBootstrap == \E c \in Operands :
  Logged("NeedsBootstrap", c, Out(Env(stats, 0), NilCt, NoErr))
FEncode == \E c \in Operands :
  Logged("Encode", c, Out(Env(stats, 0), NilCt, NoErr))
FDecode == \E c \in Operands :
  Logged("Decode", c, Out(Env(stats, 0), NilCt, NoErr))
\* Stats.Reset is a method of the counters struct, not a facade operation.
FReset == \E c \in Operands :
  Logged("Reset", c, Out(Env(Reset(stats), 0), NilCt, NoErr))

FacadeNext ==
  \/ FAdd \/ FAddInPlace \/ FSub \/ FMul \/ FMulPlaintext \/ FMulConst
  \/ FAddConst \/ FRescale \/ FRotate \/ FSumSlots \/ FPower
  \/ FBootstrap \/ FMaybeBootstrap \/ FNeedsBootstrap \/ FEncode \/ FDecode
  \/ FReset

SpecFacade == FacadeInit /\ [][FacadeNext]_vars

(***************************************************************************)
(* C1: maybe_bootstrap hands back its argument unchanged, without error,   *)
(* without a backend call and without touching a counter whenever          *)
(* level(ct) > min_level, and also whenever level(ct) <= min_level but no  *)
(* bootstrapper is available; it issues a bootstrap only when              *)
(* level(ct) <= min_level and a bootstrapper is available.                 *)
(***************************************************************************)
C1_MaybeBootstrapNoOp ==
  lastOp = "MaybeBootstrap" =>
    /\ (arg.level > minLevel \/ ~bootstrapper) =>
          (ret = arg /\ err = NoErr /\ stats = before /\ trace = <<>>)
    /\ (trace # <<>> \/ stats # before \/ ret # arg) =>
          (arg.level <= minLevel /\ bootstrapper)

C1_Witness ==
  /\ lastOp = "MaybeBootstrap"
  /\ arg.level <= minLevel
  /\ ~bootstrapper
  /\ ret = arg

(***************************************************************************)
(* C4 (as amended): every successful add, add-in-place, sub and add-const  *)
(* raises AddCount by one, every successful mul (ciphertext, plaintext,    *)
(* constant) MulCount, rescale RescaleCount, rotate RotateCount and        *)
(* bootstrap BootstrapCount; sum_slots, power and maybe_bootstrap raise    *)
(* the counters by one per backend call that succeeded; encode, decode,    *)
(* needs_bootstrap and every failed single call leave all counters         *)
(* unchanged; and no facade call ever lowers a counter.                    *)
(***************************************************************************)
AddOps == {"Add", "AddInPlace", "Sub", "AddConst"}
MulOps == {"Mul", "MulPlaintext", "MulConst"}
UncountedOps == {"NeedsBootstrap", "Encode", "Decode"}
Succeeded == IF failed > 0 THEN Len(trace) - 1 ELSE Len(trace)

C4_CountersRecordPrimitives ==
  /\ (lastOp \in AddOps /\ err = NoErr) =>
        stats = [before EXCEPT !.AddCount = @ + 1]
  /\ (lastOp \in MulOps /\ err = NoErr) =>
        stats = [before EXCEPT !.MulCount = @ + 1]
  /\ (lastOp = "Rescale" /\ err = NoErr) =>
        stats = [before EXCEPT !.RescaleCount = @ + 1]
  /\ (lastOp = "Rotate" /\ err = NoErr) =>
        stats = [before EXCEPT !.RotateCount = @ + 1]
  /\ (lastOp = "Bootstrap" /\ err = NoErr) =>
        stats = [before EXCEPT !.BootstrapCount = @ + 1]
  /\ (lastOp \in UncountedOps) => stats = before
  /\ (lastOp \notin {"none", "Reset"}) =>
        /\ Total(stats) = Total(before) + Succeeded
        /\ \A c \in Counters : stats[c] >= before[c]

C4_Witness ==
  /\ lastOp = "Sub"
  /\ err = NoErr
  /\ before.AddCount = 1
  /\ stats.AddCount = 2

\* C4 as stated: every facade call raises a counter and none lowers one.
C4_EveryCallCounted ==
  (lastOp \notin {"none", "Reset"}) =>
    /\ Total(stats) > Total(before)
    /\ \A c \in Counters : stats[c] >= before[c]

(***************************************************************************)
(* SpecSumSlots: one SumSlots call on a ciphertext whose slots hold small  *)
(* integers, on an evaluator built without a bootstrapper.                 *)
(***************************************************************************)
SlotValues == 0..MaxVal

SumSlotsInit ==
  /\ stats = ZeroStats
  /\ bootstrapper = FALSE
  /\ minLevel = DefaultMinLevel
  /\ slots \in SlotCounts
  /\ LogInit
  /\ arg \in {Ct(l, v) : l \in {1, MaxLevel}, v \in [1..slots -> SlotValues]}
  /\ inp = <<>>
  /\ ConcIdle

SSumSlots == \E f \in FailPoints :
  /\ calls = 0
  /\ Logged("SumSlots", arg, SumSlots(Env(stats, f), arg))

SumSlotsNext == SSumSlots

SpecSumSlots == SumSlotsInit /\ [][SumSlotsNext]_vars

\* Profile.RotationSteps: the rotation keys generated for a profile.
RECURSIVE RotationStepsFrom(_, _)
RotationStepsFrom(i, S) ==
  IF i < S THEN {i} \cup RotationStepsFrom(i * 2, S) ELSE {}

RotationSteps(S) == RotationStepsFrom(1, S)

(***************************************************************************)
(* C2: for a power-of-two slot count S, a successful sum_slots issues      *)
(* rotate by r then add-in-place for r = 1, 2, 4, ..., S/2 in that order,  *)
(* exactly log2(S) rotations and log2(S) additions, every rotation amount  *)
(* being one of the profile's rotation steps, and afterwards slot 0 holds  *)
(* the sum of the S initial slot values.                                   *)
(***************************************************************************)
Log2Slots == CHOOSE k \in 0..MaxLogSlots : Pow2(k) = slots

DoublingTrace ==
  [i \in 1..(2 * Log2Slots) |->
     IF i % 2 = 1 THEN <<"Rotate", Pow2((i - 1) \div 2)>>
     ELSE <<"AddInPlace", 0>>]

C2_SumSlotsDoubling ==
  (lastOp = "SumSlots" /\ err = NoErr /\ Len(arg.vals) = slots) =>
    /\ trace = DoublingTrace
    /\ stats.RotateCount = before.RotateCount + Log2Slots
    /\ stats.AddCount = before.AddCount + Log2Slots
    /\ \A i \in 1..Len(trace) :
          trace[i][1] = "Rotate" => trace[i][2] \in RotationSteps(slots)
    /\ ret.vals[1] = SumSeq(arg.vals)

C2_Witness ==
  /\ lastOp = "SumSlots"
  /\ err = NoErr
  /\ slots = 4
  /\ arg.vals = <<1, 0, 1, 1>>
  /\ Len(trace) = 4
  /\ ret.vals[1] = 3

(***************************************************************************)
(* SpecStats: several goroutines share one evaluator and call counted      *)
(* facade operations on it.  A call is the backend call, then, when it     *)
(* succeeded, e.stats.mu.Lock(), the read and the write of <counter>++,    *)
(* and e.stats.mu.Unlock().  The durations added under the same lock are   *)
(* not modelled.                                                           *)
(***************************************************************************)
Workers == 1..NumWorkers

\* The counter each operation the goroutines call is counted in.
CounterOf ==
  [Add |-> "AddCount", Mul |-> "MulCount", Rotate |-> "RotateCount"]

ConcOps == DOMAIN CounterOf

WorkerIdle == [pc |-> "idle", counter |-> "none", tmp |-> 0, n |-> 0]

StatsInit ==
  /\ stats = ZeroStats
  /\ bootstrapper = FALSE
  /\ minLevel = DefaultMinLevel
  /\ slots = Pow2(MaxLogSlots)
  /\ LogInit
  /\ arg = Ct(MaxLevel, <<>>)
  /\ inp = <<>>
  /\ mu = 0
  /\ wk = [w \in Workers |-> WorkerIdle]
  /\ done = ZeroStats

\* Variant: a Lock() that does not wait for the holder.
MuFree_Ignored == TRUE

\* sync.Mutex.Lock() returns only when nobody holds the mutex.
MuFree == mu = 0

\* The backend call of a facade operation: on failure the operation returns
\* the error and never reaches the counters.
WCall(w) == \E o \in ConcOps, ok \in BOOLEAN :
  /\ wk[w].pc = "idle"
  /\ wk[w].n < MaxOpsPerWorker
  /\ wk' = [wk EXCEPT ![w].n = @ + 1,
                      ![w].pc = IF ok THEN "lock" ELSE "idle",
                      ![w].counter = IF ok THEN CounterOf[o] ELSE "none"]
  /\ done' = IF ok THEN [done EXCEPT ![CounterOf[o]] = @ + 1] ELSE done
  /\ UNCHANGED <<evalVars, logVars, mu>>

WLock(w) ==
  /\ wk[w].pc = "lock"
  /\ MuFree
  /\ mu' = w
  /\ wk' = [wk EXCEPT ![w].pc = "load"]
  /\ UNCHANGED <<evalVars, logVars, done>>

WLoad(w) ==
  /\ wk[w].pc = "load"
  /\ wk' = [wk EXCEPT ![w].pc = "store", ![w].tmp = stats[wk[w].counter]]
  /\ UNCHANGED <<evalVars, logVars, mu, done>>

WStore(w) ==
  /\ wk[w].pc = "store"
  /\ stats' = [stats EXCEPT ![wk[w].counter] = wk[w].tmp + 1]
  /\ wk' = [wk EXCEPT ![w].pc = "unlock"]
  /\ UNCHANGED <<bootstrapper, minLevel, slots, logVars, mu, done>>

WUnlock(w) ==
  /\ wk[w].pc = "unlock"
  /\ mu' = 0
  /\ wk' = [wk EXCEPT ![w].pc = "idle", ![w].counter = "none", ![w].tmp = 0]
  /\ UNCHANGED <<evalVars, logVars, done>>

StatsNext == \E w \in Workers :
  \/ WCall(w)
  \/ WLock(w)
  \/ WLoad(w)
  \/ WStore(w)
  \/ WUnlock(w)

SpecStats == StatsInit /\ [][StatsNext]_vars

(***************************************************************************)
(* C3: when several goroutines use the facade concurrently, every counter  *)
(* update happens while its goroutine holds the mutex (at most one         *)
(* goroutine is between Lock and Unlock), and no increment is lost: once   *)
(* all goroutines have returned, each counter equals the number of         *)
(* successful operations counted in it.                                    *)
(***************************************************************************)
InCritical(w) == wk[w].pc \in {"load", "store", "unlock"}

C3_NoLostIncrements ==
  /\ \A w \in Workers : InCritical(w) => mu = w
  /\ (\A w \in Workers : wk[w].pc = "idle") => stats = done

C3_Witness ==
  /\ \A w \in Workers : wk[w].pc = "idle" /\ wk[w].n = MaxOpsPerWorker
  /\ stats.AddCount = NumWorkers * MaxOpsPerWorker
  /\ stats = done

(***************************************************************************)
(* SpecOps: one operator call on an evaluator, with block lists and        *)
(* stores of every small shape, ciphertexts of every level, and the        *)
(* backend failing at any of the first MaxFailAt calls or not at all.      *)
(***************************************************************************)
BlockCounts == 0..MaxBlocks
OpFailPoints == 0..MaxFailAt
Blocks(n, l) == [i \in 1..n |-> Ct(l, <<>>)]

\* A store whose files are all there, or whose last block file is missing.
Stores(l) ==
  UNION {{Store(bc, st, l) : st \in {bc, bc - 1} \cap Nat} :
           bc \in BlockCounts}

OtherColumns == {<<>>, <<"f1">>, <<"f1", "f2">>}

OpsInit ==
  /\ stats = ZeroStats
  /\ bootstrapper \in BOOLEAN
  /\ minLevel = (IF bootstrapper THEN 1 ELSE DefaultMinLevel)
  /\ slots = 2
  /\ LogInit
  /\ arg = NilCt
  /\ inp = <<>>
  /\ ConcIdle

\* One logged operator call: its inputs, the block counts among them, the
\* ciphertext level of its inputs, and its result.
OpCall(name, input, counts, l, r) ==
  /\ LogCall(name, r)
  /\ arg' = Ct(l, <<>>)
  /\ inp' = [in |-> input, counts |-> counts]

OMaskedSum ==
  \E nx \in BlockCounts, nv \in BlockCounts, l \in Levels, f \in OpFailPoints :
    /\ calls = 0
    /\ OpCall("MaskedSum", <<nx, nv>>, {nx, nv}, l,
              MaskedSum(Env(stats, f), Blocks(nx, l), Blocks(nv, l)))

OMaskedSumOfSquares ==
  \E nx \in BlockCounts, nv \in BlockCounts, l \in Levels, f \in OpFailPoints :
    /\ calls = 0
    /\ OpCall("MaskedSumOfSquares", <<nx, nv>>, {nx, nv}, l,
              MaskedSumOfSquares(Env(stats, f), Blocks(nx, l), Blocks(nv, l)))

OMaskedCrossSum ==
  \E nx \in BlockCounts, ny \in BlockCounts, nv \in BlockCounts,
     l \in Levels, f \in OpFailPoints :
    /\ calls = 0
    /\ OpCall("MaskedCrossSum", <<nx, ny, nv>>, {nx, ny, nv}, l,
              MaskedCrossSum(Env(stats, f), Blocks(nx, l), Blocks(ny, l),
                             Blocks(nv, l)))

OINVNTHSQRT ==
  \E n \in 0..3, k \in 0..MaxIterations, fq \in 0..2, l \in Levels,
     f \in OpFailPoints :
    /\ calls = 0
    /\ OpCall("INVNTHSQRT", INVNTHSQRTConfig(n, k, fq), {1}, l,
              INVNTHSQRT(Env(stats, f), Ct(l, <<>>), INVNTHSQRTConfig(n, k, fq)))

OBuildMask ==
  \E nv \in BlockCounts, nc \in 0..2, l \in Levels, f \in OpFailPoints :
    \E st \in Stores(l) :
      /\ calls = 0
      /\ OpCall("BuildMask", <<nv, nc, st>>, {nv, st.blockCount}, l,
                BuildMask(Env(stats, f), Blocks(nv, l), nc, st))

OCount ==
  \E nv \in BlockCounts, l \in Levels, f \in OpFailPoints :
    /\ calls = 0
    /\ OpCall("Count", <<nv>>, {nv}, l,
              NumericCount(Env(stats, f), Blocks(nv, l)))

OBc ==
  \E nv \in BlockCounts, nc \in 0..2, l \in Levels, f \in OpFailPoints :
    \E st \in Stores(l) :
      /\ calls = 0
      /\ OpCall("Bc", <<nv, nc, st>>, {nv, st.blockCount}, l,
                Bc(Env(stats, f), Blocks(nv, l), nc, st))

OPercentile ==
  \E nv \in BlockCounts, sf \in 0..MaxCategories, l \in Levels,
     f \in OpFailPoints :
    \E st \in Stores(l) :
      /\ calls = 0
      /\ OpCall("Percentile", <<nv, st, sf>>, {nv, st.blockCount}, l,
                Percentile(Env(stats, f), Blocks(nv, l), st, sf))

OComputeLBc ==
  \E nv \in BlockCounts, others \in OtherColumns,
     cols \in SUBSET {"f1", "f2"}, l \in Levels, f \in OpFailPoints :
    \E st \in Stores(l) :
      /\ calls = 0
      /\ OpCall("ComputeLBc", <<nv, st, others, cols>>, {nv, st.blockCount}, l,
                ComputeLBc(Env(stats, f), DefaultLBcConfig, st, others,
                           [columns |-> cols, store |-> st], Blocks(nv, l)))

\* The indices 1..degree among which coefficients can be negligible: none,
\* the odd ones, or all.
NegligibleSets(degree) ==
  {{}, {k \in 1..degree : k % 2 = 1}, 1..degree}

OEvaluateChebyshev ==
  /\ calls = 0
  /\ \E degree \in 0..MaxDegree, l \in Levels, f \in OpFailPoints :
       \E negligible \in NegligibleSets(degree) :
         OpCall("EvaluateChebyshev", ChebyshevCoeffs(degree, negligible), {1},
                l, EvaluateChebyshev(Env(stats, f), Ct(l, <<>>),
                                     ChebyshevCoeffs(degree, negligible)))

OApplyFilterPolynomial ==
  /\ calls = 0
  /\ \E l \in Levels, f \in OpFailPoints :
       OpCall("ApplyFilterPolynomial", <<>>, {1}, l,
              ApplyFilterPolynomial(Env(stats, f), Ct(l, <<>>)))

ODISCRETEEQUALZERO ==
  /\ calls = 0
  /\ \E sf \in 1..MaxCategories, k \in 0..MaxSharpen, l \in Levels,
        f \in OpFailPoints, oddNegligible \in BOOLEAN :
       OpCall("DISCRETEEQUALZERO", DEZConfig(sf, k), {1}, l,
              DISCRETEEQUALZERO(Env(stats, f), Ct(l, <<>>), DEZConfig(sf, k),
                                IF oddNegligible
                                THEN {i \in 1..SincDegree : i % 2 = 1}
                                ELSE {}))

OpsNext ==
  \/ OMaskedSum \/ OMaskedSumOfSquares \/ OMaskedCrossSum \/ OINVNTHSQRT
  \/ OBuildMask \/ OPercentile \/ OComputeLBc \/ OCount \/ OBc
  \/ OEvaluateChebyshev \/ OApplyFilterPolynomial \/ ODISCRETEEQUALZERO

SpecOps == OpsInit /\ [][OpsNext]_vars

(***************************************************************************)
(* C5: when a backend primitive fails during an operator call, that        *)
(* primitive is the last one the operator issues, the operator returns no  *)
(* result together with an error that wraps the backend's error; and no    *)
(* operator call returns both an error and a result.                       *)
(***************************************************************************)
C5_FailureStopsOperator ==
  (lastOp # "none") =>
    /\ (failed > 0) =>
          /\ failed = Len(trace)
          /\ err # NoErr
          /\ Len(err) > Len(BackendErr)
          /\ SubSeq(err, Len(err) - Len(BackendErr) + 1, Len(err)) = BackendErr
          /\ ret = NilCt
    /\ (err # NoErr) => ret = NilCt

C5_Witness ==
  /\ lastOp = "INVNTHSQRT"
  /\ failed = 4
  /\ trace[4][1] = "AddConst"
  /\ err = <<"iteration sub failed", "add const failed", "backend">>
  /\ ret = NilCt

(***************************************************************************)
(* C6 as stated: whenever an operator call returns a configuration error   *)
(* (invalid exponent n, empty or mismatched block lists, a secondary       *)
(* column with no BBMV store) it has issued no HE primitive and has left   *)
(* every counter unchanged.                                                *)
(***************************************************************************)
ConfigErrors ==
  {<<"n must be positive">>, <<"block count mismatch">>,
   <<"no blocks provided">>, <<"no BBMV store for column">>}

C6_ConfigErrorsBeforeHEWork ==
  (lastOp # "none" /\ err \in ConfigErrors) =>
    (trace = <<>> /\ stats = before)

(***************************************************************************)
(* C7 as stated: every operator taking several parallel block sequences    *)
(* returns the block-count-mismatch error whenever the block counts of its *)
(* inputs (block lists, store block count) disagree.                       *)
(***************************************************************************)
MultiBlockOps ==
  {"MaskedSum", "MaskedSumOfSquares", "MaskedCrossSum", "BuildMask",
   "Percentile", "ComputeLBc"}

C7_ShapeMismatchReported ==
  (lastOp \in MultiBlockOps /\ Cardinality(inp.counts) > 1) =>
    err = <<"block count mismatch">>

(***************************************************************************)
(* C8: on an evaluator without bootstrapper (maybe_bootstrap hands every   *)
(* ciphertext back unchanged), INVNTHSQRT on a ciphertext with fewer       *)
(* levels than its iterations consume (2 + ceil(log2 n) per iteration)     *)
(* returns an error and no ciphertext; the error is the backend's refusal  *)
(* or "bootstrapping not available"; and a ciphertext it does return sits  *)
(* at the input level minus the levels consumed, never below level 0.      *)
(***************************************************************************)
RECURSIVE CeilLog2(_)
CeilLog2(n) == IF n <= 1 THEN 0 ELSE 1 + CeilLog2((n + 1) \div 2)

LevelsNeeded(config) == config.Iterations * (2 + CeilLog2(config.N))

PlanJobLBc(inputColumns) ==
  IF Len(inputColumns) < 2
  THEN <<"operation lbc requires at least two input columns">>
  ELSE NoErr

\* runLBc on a table of rowCount rows whose block files are all there.
runLBc(e, rowCount, inputColumns, level) ==
  IF Len(inputColumns) < 1
  THEN Out(e, NilCt, <<"LBc requires at least one input column">>)
  ELSE LET blockCount == BlockCountOf(rowCount, slots)
           store == Store(blockCount, blockCount, level)
           otherCols == Tail(inputColumns)
           bbmvStores == [columns |-> {otherCols[j] : j \in 1..Len(otherCols)},
                          store |-> store]
       IN Pass(ComputeLBc(e, DefaultLBcConfig, store, otherCols, bbmvStores,
                          Blocks(blockCount, level)), LAMBDA lbcResult :
          IF Len(lbcResult.ct.PackedResults) = 0
          THEN Out(lbcResult.env, NilCt, <<"LBc produced no results">>)
          ELSE Out(lbcResult.env, lbcResult.ct.PackedResults[1], NoErr))

(***************************************************************************)
(* SpecLBc: LBc jobs over tables of 1..MaxRows rows on profiles of a few   *)
(* slots and on profile A: validating an LBc configuration, planning an    *)
(* LBc job, running it through the driver, and the engine itself under     *)
(* any configuration.                                                      *)
(***************************************************************************)
Deltas == (0..MaxDelta) \cup {10, 50, 63, 64}
LBcConfigs ==
  {LBcConfig(d, o, lam) : d \in Deltas, o \in {0, 10}, lam \in {10, 30, 53}}
Rows == 1..MaxRows
CategoryCounts == 1..(MaxCategories + 1)
ColumnLists == {<<>>, <<"f0">>, <<"f0", "f1">>, <<"f0", "f1", "f2">>}

LBcInit ==
  /\ stats = ZeroStats
  /\ bootstrapper = FALSE
  /\ minLevel = DefaultMinLevel
  /\ slots \in SlotCounts \cup {Pow2(ProfileALogN - 1)}
  /\ LogInit
  /\ arg = NilCt
  /\ inp = <<>>
  /\ ConcIdle

\* One logged call on a deployment with LBc configuration config, a primary
\* column of sf categories, a job over the columns cols and a table of rows
\* rows.
LBcCall(name, config, sf, cols, rows, r) ==
  /\ LogCall(name, r)
  /\ arg' = Ct(MaxLevel, <<>>)
  /\ inp' = [config |-> config, categories |-> sf, columns |-> cols,
             rows |-> rows]

LValidateLBcConfig ==
  \E config \in LBcConfigs, sf \in CategoryCounts :
    /\ calls = 0
    /\ LBcCall("ValidateLBcConfig", config, sf, <<"f0", "f1">>, 1,
               Out(Env(stats, 0), NilCt, ValidateLBcConfig(config, sf)))

LPlanJob ==
  \E sf \in CategoryCounts, cols \in ColumnLists :
    /\ calls = 0
    /\ LBcCall("PlanJob", DefaultLBcConfig, sf, cols, 1,
               Out(Env(stats, 0), NilCt, PlanJobLBc(cols)))

LRunLBc ==
  \E sf \in CategoryCounts, cols \in ColumnLists, rows \in Rows, f \in 0..1 :
    /\ calls = 0
    /\ LBcCall("runLBc", DefaultLBcConfig, sf, cols, rows,
               runLBc(Env(stats, f), rows, cols, MaxLevel))

LComputeLBc ==
  \E config \in LBcConfigs, rows \in Rows :
    /\ calls = 0
    /\ LBcCall("ComputeLBc", config, 1, <<"f0">>, rows,
               ComputeLBc(Env(stats, 0), config,
                          Store(BlockCountOf(rows, slots),
                                BlockCountOf(rows, slots), MaxLevel),
                          <<>>, [columns |-> {}, store |-> NilCt],
                          Blocks(BlockCountOf(rows, slots), MaxLevel)))

LBcNext == LValidateLBcConfig \/ LPlanJob \/ LRunLBc \/ LComputeLBc

SpecLBc == LBcInit /\ [][LBcNext]_vars

(***************************************************************************)
(* C9 as stated: validation and planning of a well-formed LBc job fail if  *)
(* and only if delta + Delta*(S_f - 1) + Lambda + ceil(log2 slots) > 52,   *)
(* and a job over this budget is rejected by the driver before any HE      *)
(* primitive is issued.                                                    *)
(***************************************************************************)
OverBudget ==
  inp.config.DeltaOffset + inp.config.Delta * (inp.categories - 1)
    + inp.config.LambdaBig + CeilLog2(slots) > 52

C9_BudgetIffRejected ==
  /\ (lastOp = "ValidateLBcConfig" \/ (lastOp = "PlanJob" /\ Len(inp.columns) >= 2))
        => (OverBudget <=> err # NoErr)
  /\ (lastOp = "runLBc" /\ OverBudget) => (err # NoErr /\ trace = <<>>)

(***************************************************************************)
(* C10 as stated: the flag RequiresAggregation of an LBc result is true    *)
(* exactly when the table's row count R satisfies R > S * 2^Delta.         *)
(***************************************************************************)
\* r > s * 2^d, by halving: r > 2m exactly when ceil(r/2) > m.
RECURSIVE Exceeds(_, _, _)
Exceeds(r, s, d) ==
  IF d = 0 THEN r > s ELSE Exceeds((r + 1) \div 2, s, d - 1)

C10_RequiresAggregation ==
  (lastOp = "ComputeLBc" /\ err = NoErr) =>
    (ret.RequiresAggregation <=> Exceeds(inp.rows, slots, inp.config.Delta))

\* The flag away from the wrap-around of slots * (1 << Delta).
C10_WithoutOverflow ==
  (lastOp = "ComputeLBc" /\ err = NoErr
     /\ Log2(slots) + inp.config.Delta < IntBits - 1) =>
    (ret.RequiresAggregation <=> Exceeds(inp.rows, slots, inp.config.Delta))

(***************************************************************************)
(* pkg/schema: the blocks of a table of rowCount rows.                     *)
(***************************************************************************)
\* Variant: the end of the last block is not cut at the row count.
BlockRange_Unclamped(blockIndex, rowCount, slotCount) ==
  <<blockIndex * slotCount, blockIndex * slotCount + slotCount>>

\* BlockRange: <<start, end>>, end exclusive.
BlockRange(blockIndex, rowCount, slotCount) ==
  LET start == blockIndex * slotCount
      end == start + slotCount
  IN <<start, IF end > rowCount THEN rowCount ELSE end>>

RowsInBlock(blockIndex, rowCount, slotCount) ==
  BlockRange(blockIndex, rowCount, slotCount)[2]
    - BlockRange(blockIndex, rowCount, slotCount)[1]

\* The rows of a column that fall into block blockIndex.
BlockRows(column, blockIndex, slotCount) ==
  LET r == BlockRange(blockIndex, Len(column), slotCount)
  IN SubSeq(column, r[1] + 1, r[2])

(***************************************************************************)
(* The LBc encoders, and the post-processing of decrypted LBc results.     *)
(***************************************************************************)
\* EncodePBMV: math.Ldexp(1.0, exp) is 2^exp (exponents here are >= 0).
EncodePBMV(values, categories, slotCount, config) ==
  [i \in 1..slotCount |->
     IF i <= Len(values) /\ values[i] >= 1 /\ values[i] <= categories
     THEN Pow2(config.DeltaOffset + config.Delta * (values[i] - 1))
     ELSE 0]

\* EncodePBMV of pkg/ops/categorical/binop.go, whose LBcConfig has no
\* DeltaOffset: spacing = 1 << Delta, and the slot gets float64(v).
BinopEncodePBMV(values, categories, slotCount, config) ==
  [i \in 1..slotCount |->
     IF /\ i <= Len(values)
        /\ values[i] >= 1
        /\ values[i] <= categories
        /\ (values[i] - 1) * Pow2(config.Delta) < slotCount
     THEN values[i]
     ELSE 0]

EncodeBBMV(mask, slotCount, config) ==
  [i \in 1..slotCount |->
     IF i <= Len(mask) /\ mask[i] THEN Pow2(config.LambdaBig) ELSE 0]

EncodeBBMVForValue(values, want, slotCount, config) ==
  [i \in 1..slotCount |->
     IF i <= Len(values) /\ values[i] = want
     THEN Pow2(config.LambdaBig) ELSE 0]

\* The validity vector of a block: 1 for a valid row, 0 elsewhere.
EncodeValidity(valid, slotCount) ==
  [i \in 1..slotCount |-> IF i <= Len(valid) /\ valid[i] THEN 1 ELSE 0]

\* Decrypted slot values are floats: the value carried by the ciphertext
\* plus the CKKS noise.  A float is modelled in units of 1/Unit, the noise
\* staying below one half.
Unit == 2 * MaxNoise + 2
Noises == (0 - MaxNoise)..MaxNoise
Decode(vals, noise) == [i \in 1..Len(vals) |-> Unit * vals[i] + noise[i]]

\* int(math.Round(v)): to the nearest integer, halves away from zero.
Round(v) ==
  IF v >= 0 THEN (2 * v + Unit) \div (2 * Unit)
  ELSE 0 - ((2 * (0 - v) + Unit) \div (2 * Unit))

RECURSIVE Product(_)
Product(s) == IF s = <<>> THEN 1 ELSE Head(s) * Product(Tail(s))

\* indexToKey: the category values of the cell with flat index index, last
\* dimension fastest.
RECURSIVE indexToKey(_, _)
indexToKey(index, categoryCounts) ==
  IF categoryCounts = <<>> THEN <<>>
  ELSE LET n == Len(categoryCounts)
       IN Append(indexToKey(index \div categoryCounts[n],
                            SubSeq(categoryCounts, 1, n - 1)),
                 (index % categoryCounts[n]) + 1)

\* aggregated[i] += v for every chunk and every i < totalCells.
RECURSIVE Aggregate(_, _)
Aggregate(chunks, i) ==
  IF chunks = <<>> THEN 0
  ELSE (IF i < Len(Head(chunks)) THEN Head(chunks)[i + 1] ELSE 0)
         + Aggregate(Tail(chunks), i)

\* ProcessDecryptedChunks: table.Counts, keyed by the cell's category values.
ProcessDecryptedChunks(chunks, categoryCounts) ==
  LET totalCells == Product(categoryCounts)
      cells == 0..(totalCells - 1)
  IN [key \in {indexToKey(i, categoryCounts) : i \in cells} |->
        Round(Aggregate(chunks,
                        CHOOSE i \in cells :
                          indexToKey(i, categoryCounts) = key))]

(***************************************************************************)
(* SpecTable: the data owner encodes a categorical table for LBc, the      *)
(* engine computes the packed LBc ciphertext and the decrypted result is   *)
(* post-processed into a contingency table.                                *)
(***************************************************************************)
TableSlotCounts == {2, 4}
TableCategories == MaxCategories
TableConfigs == {LBcConfig(d, o, lam) : d \in 1..MaxDelta, o \in 0..1,
                                        lam \in 0..1}
\* Columns of up to MaxTableRows rows with values in lo..hi.
Columns(lo, hi) == UNION {[1..r -> lo..hi] : r \in 1..MaxTableRows}

TableInit ==
  /\ stats = ZeroStats
  /\ bootstrapper = FALSE
  /\ minLevel = DefaultMinLevel
  /\ slots \in TableSlotCounts
  /\ LogInit
  /\ arg = NilCt
  /\ inp = <<>>
  /\ ConcIdle

\* The blocks of a column, encoded block by block with Encode.
EncodeBlocks(column, Encode(_)) ==
  [b \in 1..BlockCountOf(Len(column), slots) |->
     Encode(BlockRows(column, b - 1, slots))]

\* ComputeLBc on the encoded table, decryption of the packed result and
\* ProcessDecryptedChunks on the decrypted slots.
LBcTable(e, config, f0, f1, valid, want, others, noise) ==
  LET pbmv == EncodeBlocks(f0, LAMBDA rows :
                EncodePBMV(rows, TableCategories, slots, config))
      bbmv == EncodeBlocks(f1, LAMBDA rows :
                EncodeBBMVForValue(rows, want, slots, config))
      vBlocks == EncodeBlocks(valid, LAMBDA rows :
                   Ct(MaxLevel, EncodeValidity(rows, slots)))
      categoryCounts == IF others = <<>> THEN <<TableCategories>>
                        ELSE <<TableCategories, TableCategories>>
  IN Pass(ComputeLBc(e, config, StoreOf(pbmv, MaxLevel), others,
                     [columns |-> {"f1"}, store |-> StoreOf(bbmv, MaxLevel)],
                     vBlocks), LAMBDA lbc :
     Out(lbc.env,
         [Counts |-> ProcessDecryptedChunks(
                       <<Decode(lbc.ct.PackedResults[1].vals,
                                [i \in 1..slots |-> noise])>>,
                       categoryCounts),
          RequiresAggregation |-> lbc.ct.RequiresAggregation],
         NoErr))

TLBcTable ==
  /\ calls = 0
  /\ \E r \in 1..MaxTableRows, config \in TableConfigs, noise \in Noises,
        want \in 1..TableCategories, others \in {<<>>, <<"f1">>} :
       \E f0 \in [1..r -> 1..TableCategories],
          f1 \in [1..r -> 1..TableCategories], valid \in [1..r -> BOOLEAN] :
         /\ LogCall("LBcTable",
                    LBcTable(Env(stats, 0), config, f0, f1, valid, want,
                             others, noise))
         /\ arg' = NilCt
         /\ inp' = [config |-> config, f0 |-> f0, f1 |-> f1,
                    valid |-> valid, want |-> want, others |-> others]

TEncodePBMV ==
  /\ calls = 0
  /\ \E values \in Columns(0, TableCategories + 1), config \in TableConfigs,
        n \in {1, slots} :
       /\ LogCall("EncodePBMV",
                  Out(Env(stats, 0),
                      Ct(0, EncodePBMV(values, TableCategories, n, config)),
                      NoErr))
       /\ arg' = NilCt
       /\ inp' = [config |-> config, values |-> values, slots |-> n]

TBinopEncodePBMV ==
  /\ calls = 0
  /\ \E values \in Columns(0, TableCategories + 1), config \in TableConfigs,
        n \in {1, slots} :
       /\ LogCall("binop.EncodePBMV",
                  Out(Env(stats, 0),
                      Ct(0, BinopEncodePBMV(values, TableCategories, n,
                                            config)),
                      NoErr))
       /\ arg' = NilCt
       /\ inp' = [config |-> config, values |-> values, slots |-> n]

TableNext == TLBcTable \/ TEncodePBMV \/ TBinopEncodePBMV

SpecTable == TableInit /\ [][TableNext]_vars

(***************************************************************************)
(* C11 as stated: for a table with R <= S * 2^Delta, the contingency table *)
(* that post-processing builds from the decrypted LBc result holds, in     *)
(* every cell, the number of valid rows carrying that combination of       *)
(* category values.                                                        *)
(***************************************************************************)
\* The number of valid rows of the table carrying the category values key.
CellCount(key) ==
  Cardinality({i \in DOMAIN inp.f0 :
                 /\ inp.valid[i]
                 /\ inp.f0[i] = key[1]
                 /\ (Len(key) > 1 => inp.f1[i] = key[2])})

C11_RoundTripExact ==
  (lastOp = "LBcTable" /\ err = NoErr
     /\ ~Exceeds(Len(inp.f0), slots, inp.config.Delta)) =>
    \A key \in DOMAIN ret.Counts : ret.Counts[key] = CellCount(key)

(***************************************************************************)
(* C12 as stated: the PBMV encoder writes exactly 2^(delta + Delta*(v-1))  *)
(* into the slot of every row carrying a value v in 1..S_f and 0 into      *)
(* every other slot, and the encoded vector has length S.                  *)
(***************************************************************************)
PBMVExact ==
  /\ Len(ret.vals) = inp.slots
  /\ \A i \in 1..inp.slots :
       ret.vals[i] =
         IF i <= Len(inp.values) /\ inp.values[i] \in 1..TableCategories
         THEN Pow2(inp.config.DeltaOffset
                     + inp.config.Delta * (inp.values[i] - 1))
         ELSE 0

C12_PBMVEncodingLdexp == (lastOp = "EncodePBMV") => PBMVExact

(***************************************************************************)
(* pkg/jobs: job specifications, their validation and planning.            *)
(***************************************************************************)
Operations ==
  {"mean", "var", "stdev", "corr", "bc", "ba", "bv", "lbc", "percentile",
   "lookup"}

\* A JobSpec; K is a float64, drawn here from whole numbers.
JobSpec(id, operation, table, inputColumns, targetColumn, conditions, k) ==
  [ID |-> id, Operation |-> operation, Table |-> table,
   InputColumns |-> inputColumns, TargetColumn |-> targetColumn,
   Conditions |-> conditions, K |-> k]

\* Variant: correlation accepts two input columns or more.
Validate_AtLeastTwo(j) ==
  IF j.ID = "" THEN <<"job ID is required">>
  ELSE IF j.Table = "" THEN <<"table name is required">>
  ELSE IF j.Operation = "corr" /\ Len(j.InputColumns) < 2
       THEN <<"operation requires exactly two input columns">>
  ELSE IF j.Operation \in Operations THEN NoErr
  ELSE <<"unknown operation">>

Validate(j) ==
  IF j.ID = "" THEN <<"job ID is required">>
  ELSE IF j.Table = "" THEN <<"table name is required">>
  ELSE CASE j.Operation \in {"mean", "var", "stdev"} ->
              IF Len(j.InputColumns) # 1
              THEN <<"operation requires exactly one input column">>
              ELSE NoErr
         [] j.Operation = "corr" ->
              IF Len(j.InputColumns) # 2
              THEN <<"operation requires exactly two input columns">>
              ELSE NoErr
         [] j.Operation = "bc" ->
              IF Len(j.Conditions) = 0
              THEN <<"operation bc requires at least one condition">>
              ELSE NoErr
         [] j.Operation \in {"ba", "bv"} ->
              IF Len(j.Conditions) = 0
              THEN <<"operation requires at least one condition">>
              ELSE IF j.TargetColumn = ""
                   THEN <<"operation requires a target column">>
                   ELSE NoErr
         [] j.Operation = "lbc" ->
              IF Len(j.InputColumns) < 2
              THEN <<"operation lbc requires at least two input columns">>
              ELSE NoErr
         [] j.Operation = "percentile" ->
              IF Len(j.InputColumns) # 1
              THEN <<"operation percentile requires exactly one ordinal column">>
              ELSE IF j.K < 0 \/ j.K > 100
                   THEN <<"k must be between 0 and 100">>
                   ELSE NoErr
         [] j.Operation = "lookup" ->
              IF Len(j.InputColumns) # 1
              THEN <<"operation lookup requires exactly one categorical column">>
              ELSE IF j.TargetColumn = ""
                   THEN <<"operation lookup requires a target column">>
                   ELSE NoErr
         [] OTHER -> <<"unknown operation">>

\* No job, no plan.
NoJob == <<>>

\* ParseJobSpec: decodes the JSON text (which may fail), then validates.
ParseJobSpec(decodes, j) ==
  IF ~decodes THEN [job |-> NoJob, err |-> <<"failed to parse job spec">>]
  ELSE IF Validate(j) # NoErr
       THEN [job |-> NoJob, err |-> Wrap("invalid job spec", Validate(j))]
       ELSE [job |-> j, err |-> NoErr]

\* The names of the plan steps of an operation.
PlanSteps(operation) ==
  CASE operation = "mean" ->
         <<"load_data", "masked_sum", "count", "inverse", "divide">>
    [] operation = "var" ->
         <<"load_data", "mean", "sum_squares", "inverse", "variance">>
    [] operation = "stdev" -> <<"load_data", "variance", "sqrt">>
    [] operation = "corr" ->
         <<"load_data", "means", "covariance", "variances", "normalize">>
    [] operation = "bc" -> <<"load_bmvs", "build_mask", "sum">>
    [] operation = "ba" -> <<"load_data", "build_mask", "mean">>
    [] operation = "bv" -> <<"load_data", "build_mask", "variance">>
    [] operation = "lbc" -> <<"load_pbmv", "load_bbmv", "multiply", "pack">>
    [] operation = "percentile" ->
         <<"load_bmvs", "frequencies", "cumulative", "compare", "find">>
    [] operation = "lookup" -> <<"load_data", "equality", "select">>
    [] OTHER -> <<>>

PlanJob(j) ==
  IF Validate(j) # NoErr
  THEN [job |-> NoJob, err |-> Validate(j)]
  ELSE [job |-> [Job |-> j, Steps |-> PlanSteps(j.Operation)], err |-> NoErr]

\* runPercentile on a table of rowCount rows whose block files are all
\* there; categories is the category count of the job's column, 0 when the
\* schema has no such column.
runPercentile(e, rowCount, j, categories, level) ==
  IF Len(j.InputColumns) < 1
  THEN Out(e, NilCt, <<"percentile requires an input column">>)
  ELSE IF j.K <= 0 \/ j.K > 100
  THEN Out(e, NilCt, <<"k must be between 0 and 100">>)
  ELSE IF categories = 0
  THEN Out(e, NilCt, <<"column not found">>)
  ELSE LET blockCount == BlockCountOf(rowCount, slots)
       IN Percentile(e, Blocks(blockCount, level),
                     Store(blockCount, blockCount, level), categories)

(***************************************************************************)
(* SpecJobs: job specifications of every shape are validated, parsed,      *)
(* planned, and percentile jobs are run by the driver.                     *)
(***************************************************************************)
Ks == {-1, 0, 1, 50, 100, 101}
ConditionLists == {<<>>, <<"c1">>, <<"c1", "c2">>}
Jobs ==
  {JobSpec(id, op, table, cols, target, conds, k) :
     id \in {"", "job"}, op \in Operations \cup {"median"},
     table \in {"", "table"}, cols \in ColumnLists, target \in {"", "y"},
     conds \in ConditionLists, k \in Ks}

JobsInit ==
  /\ stats = ZeroStats
  /\ bootstrapper = FALSE
  /\ minLevel = DefaultMinLevel
  /\ slots = 2
  /\ LogInit
  /\ arg = NilCt
  /\ inp = <<>>
  /\ ConcIdle

\* One logged call on job j handing back r.job and r.err.
JobCall(name, j, r) ==
  /\ LogCall(name, Out(Env(stats, 0), r.job, r.err))
  /\ arg' = NilCt
  /\ inp' = j

JValidate ==
  /\ calls = 0
  /\ \E j \in Jobs : JobCall("Validate", j, [job |-> NoJob, err |-> Validate(j)])

JParseJobSpec ==
  /\ calls = 0
  /\ \E j \in Jobs, decodes \in BOOLEAN :
       JobCall("ParseJobSpec", j, ParseJobSpec(decodes, j))

JPlanJob ==
  /\ calls = 0
  /\ \E j \in Jobs : JobCall("PlanJob", j, PlanJob(j))

JRunPercentile ==
  /\ calls = 0
  /\ \E j \in Jobs, categories \in 0..1 :
       /\ j.Operation = "percentile"
       /\ LogCall("runPercentile",
                  runPercentile(Env(stats, 0), 1, j, categories, MaxLevel))
       /\ arg' = NilCt
       /\ inp' = j

JobsNext == JValidate \/ JParseJobSpec \/ JPlanJob \/ JRunPercentile

SpecJobs == JobsInit /\ [][JobsNext]_vars

(***************************************************************************)
(* C13: a job with non-empty id and table is rejected by Validate whenever *)
(* its operation's arity rule fails (mean/var/stdev/percentile: exactly    *)
(* one input column; corr: exactly two; ba/bv: a condition and a target    *)
(* column; lbc: at least two input columns) and accepted when the rule     *)
(* holds (for percentile: with k in (0, 100]); and ParseJobSpec and        *)
(* PlanJob return an error and no job or plan for every job that Validate  *)
(* rejects.                                                                *)
(***************************************************************************)
ArityOps == {"mean", "var", "stdev", "percentile", "corr", "ba", "bv", "lbc"}

ArityRule(j) ==
  CASE j.Operation \in {"mean", "var", "stdev", "percentile"} ->
         Len(j.InputColumns) = 1
    [] j.Operation = "corr" -> Len(j.InputColumns) = 2
    [] j.Operation \in {"ba", "bv"} ->
         Len(j.Conditions) >= 1 /\ j.TargetColumn # ""
    [] j.Operation = "lbc" -> Len(j.InputColumns) >= 2
    [] OTHER -> TRUE

C13_ArityRules ==
  /\ (lastOp = "Validate" /\ inp.ID # "" /\ inp.Table # ""
        /\ inp.Operation \in ArityOps) =>
       /\ ~ArityRule(inp) => err # NoErr
       /\ (ArityRule(inp)
             /\ (inp.Operation = "percentile" => inp.K > 0 /\ inp.K <= 100))
            => err = NoErr
  /\ (lastOp \in {"ParseJobSpec", "PlanJob"} /\ Validate(inp) # NoErr) =>
       (err # NoErr /\ ret = NoJob)
  /\ (lastOp = "PlanJob" /\ err = NoErr) => ret.Job = inp

C13_Witness ==
  /\ lastOp = "PlanJob"
  /\ inp.Operation = "corr"
  /\ inp.ID # "" /\ inp.Table # ""
  /\ Len(inp.InputColumns) = 3
  /\ err = <<"operation requires exactly two input columns">>
  /\ ret = NoJob

(***************************************************************************)
(* C14 as stated: a percentile job passes Validate only if its k lies in   *)
(* (0, 100].                                                               *)
(***************************************************************************)
C14_PercentileK ==
  (lastOp = "Validate" /\ inp.Operation = "percentile" /\ err = NoErr) =>
    (inp.K > 0 /\ inp.K <= 100)

(***************************************************************************)
(* C15 as stated: a bc job passes Validate only if it has at least one     *)
(* condition and no target column.                                         *)
(***************************************************************************)
C15_BcNoTarget ==
  (lastOp = "Validate" /\ inp.Operation = "bc" /\ err = NoErr) =>
    (Len(inp.Conditions) >= 1 /\ inp.TargetColumn = "")

(***************************************************************************)
(* C16 as stated: INVNTHSQRT called with an exponent n other than 1 and 2  *)
(* returns an error and issues no primitive.                               *)
(***************************************************************************)
C16_OnlyReciprocalAndRoot ==
  (lastOp = "INVNTHSQRT" /\ inp.in.N \notin {1, 2}) =>
    (err # NoErr /\ ret = NilCt /\ trace = <<>>)

(***************************************************************************)
(* C19: along any sequence of facade calls, a successful rescale hands     *)
(* back a ciphertext one level below its input; a successful add, sub,     *)
(* mul, rotate or constant operation hands back one at the lowest level of *)
(* its inputs, never above; sum_slots and power never raise the level; and *)
(* a result sits above the input's level only when a bootstrap was         *)
(* performed, and then at the refreshed level MaxLevel.                    *)
(***************************************************************************)
BinaryOps == {"Add", "AddInPlace", "Sub", "Mul"}
UnaryOps == {"MulPlaintext", "MulConst", "AddConst", "Rotate"}
CompositeOps == {"SumSlots", "Power"}
Bootstrapped == \E i \in 1..Succeeded : trace[i][1] = "Bootstrap"

NewTableMetadata(schemaValid, rowCount, slotCount) ==
  IF ~schemaValid
  THEN [meta |-> NilCt, err |-> Wrap("invalid schema", <<"schema">>)]
  ELSE IF rowCount <= 0
  THEN [meta |-> NilCt, err |-> <<"row count must be positive">>]
  ELSE IF slotCount <= 0
  THEN [meta |-> NilCt, err |-> <<"slots must be positive">>]
  ELSE [meta |-> [RowCount |-> rowCount, Slots |-> slotCount,
                  BlockCount |-> BlockCountOf(rowCount, slotCount)],
        err |-> NoErr]

SchemaInit ==
  /\ stats = ZeroStats
  /\ bootstrapper = FALSE
  /\ minLevel = DefaultMinLevel
  /\ slots = 2
  /\ LogInit
  /\ arg = NilCt
  /\ inp = <<>>
  /\ ConcIdle

SNewTableMetadata ==
  /\ calls = 0
  /\ \E schemaValid \in BOOLEAN, rowCount \in -1..MaxMetaRows,
        slotCount \in -1..MaxMetaSlots :
       \E r \in {NewTableMetadata(schemaValid, rowCount, slotCount)} :
         /\ LogCall("NewTableMetadata", Out(Env(stats, 0), r.meta, r.err))
         /\ arg' = NilCt
         /\ inp' = [rowCount |-> rowCount, slots |-> slotCount]

\* A query on the metadata held in ret; the metadata stays as it is.
MetaQuery(name, blockIndex, answer) ==
  /\ calls' = calls + 1
  /\ lastOp' = name
  /\ inp' = [blockIndex |-> blockIndex, answer |-> answer]
  /\ UNCHANGED <<evalVars, arg, ret, err, before, trace, failed, concVars>>

SBlockRange ==
  /\ calls = 1
  /\ lastOp = "NewTableMetadata"
  /\ err = NoErr
  /\ \E b \in 0..ret.BlockCount :
       MetaQuery("BlockRange", b, BlockRange(b, ret.RowCount, ret.Slots))

SRowsInBlock ==
  /\ calls = 1
  /\ lastOp = "NewTableMetadata"
  /\ err = NoErr
  /\ \E b \in 0..ret.BlockCount :
       MetaQuery("RowsInBlock", b, RowsInBlock(b, ret.RowCount, ret.Slots))

SchemaNext == SNewTableMetadata \/ SBlockRange \/ SRowsInBlock

SpecSchema == SchemaInit /\ [][SchemaNext]_vars

(***************************************************************************)
(* C20: a table created with R > 0 rows and S > 0 slots has NB = ceil(R/S) *)
(* blocks; for b in 0..NB-1 the block ranges are [b*S, min((b+1)*S, R)),   *)
(* are non-empty, and every row 0..R-1 lies in exactly one of them (they   *)
(* are pairwise disjoint and cover the rows); the RowsInBlock of all       *)
(* blocks add up to R.                                                     *)
(***************************************************************************)
SchemaOps == {"NewTableMetadata", "BlockRange", "RowsInBlock"}

C20_BlockPartition ==
  (lastOp \in SchemaOps /\ err = NoErr) =>
    LET R == ret.RowCount
        S == ret.Slots
        NB == ret.BlockCount
        range(b) == BlockRange(b, R, S)
    IN /\ R > 0 /\ S > 0
       /\ NB * S >= R /\ (NB - 1) * S < R
       /\ \A b \in 0..(NB - 1) :
            /\ range(b) = <<b * S, Min((b + 1) * S, R)>>
            /\ range(b)[1] < range(b)[2]
            /\ 0 <= range(b)[1] /\ range(b)[2] <= R
       /\ \A row \in 0..(R - 1) :
            Cardinality({b \in 0..(NB - 1) :
                           range(b)[1] <= row /\ row < range(b)[2]}) = 1
       /\ SumSeq([i \in 1..NB |-> RowsInBlock(i - 1, R, S)]) = R
       /\ (lastOp = "BlockRange" /\ inp.blockIndex < NB) =>
            inp.answer = <<inp.blockIndex * S, Min((inp.blockIndex + 1) * S, R)>>
       /\ (lastOp = "RowsInBlock" /\ inp.blockIndex < NB) =>
            inp.answer = Min((inp.blockIndex + 1) * S, R) - inp.blockIndex * S

\* The last block of a table of 7 rows in blocks of 3 slots holds one row.
C20_Witness ==
  /\ lastOp = "RowsInBlock"
  /\ err = NoErr
  /\ ret.RowCount = 7 /\ ret.Slots = 3 /\ ret.BlockCount = 3
  /\ inp.blockIndex = 2
  /\ inp.answer = 1

(***************************************************************************)
(* The slot values under the percentile engine.  CKKS computes on          *)
(* approximate fixed-point numbers: a value is an integer count of         *)
(* 2^-FracBits, a product is rounded to that resolution, and a value whose *)
(* magnitude passes MaxMagnitude is beyond what a ciphertext can carry:    *)
(* from there on the slot holds no defined value (Overflow), and what it   *)
(* decrypts to is arbitrary.                                               *)
(***************************************************************************)
FixUnit == Pow2(FracBits)
FixCap == MaxMagnitude * FixUnit
Overflow == FixCap + 1

Fix(n) == n * FixUnit
\* The constant num/den, e.g. complex(0.5, 0) or complex(-kThreshold, 0).
FixConst(num, den) == (2 * num * FixUnit + den) \div (2 * den)
\* Rest applied to a value that is computed once.
With(value, Rest(_)) == CHOOSE out \in {Rest(v) : v \in {value}} : TRUE
FixNorm(value) ==
  With(value, LAMBDA v : IF v > FixCap \/ v < -FixCap THEN Overflow ELSE v)
FixAdd(a, b) ==
  With(a, LAMBDA x : With(b, LAMBDA y :
    IF x = Overflow \/ y = Overflow THEN Overflow ELSE FixNorm(x + y)))
\* Mul followed by Rescale, or MulConst.
FixMul(a, b) ==
  With(a, LAMBDA x : With(b, LAMBDA y :
    IF x = Overflow \/ y = Overflow THEN Overflow
    ELSE FixNorm((2 * x * y + FixUnit) \div (2 * FixUnit))))
\* The nearest integer to a value.
FixRound(v) == (2 * v + FixUnit) \div (2 * FixUnit)

\* One Newton iteration for n = 1: y <- y * (2 - x * y).
NewtonValue(x, yCt) ==
  With(yCt, LAMBDA y :
    LET xyN == FixMul(x, y)
        diff == FixMul(FixAdd(xyN, -Fix(2)), -Fix(1))
    IN FixMul(FixMul(y, diff), Fix(1)))

\* INVNTHSQRT with n = 1 after the first iterations passes of its loop.
RECURSIVE InverseValue(_, _)
InverseValue(x, iterations) ==
  IF iterations = 0 THEN FixConst(1, 2)
  ELSE NewtonValue(x, InverseValue(x, iterations - 1))

\* One refinement of APPROXSIGN: s <- s * (3 - s^2) / 2.
SignStepValue(result) ==
  With(result, LAMBDA s :
    LET s2 == FixMul(s, s)
        threeMinusS2 == FixAdd(FixMul(s2, -Fix(1)), Fix(3))
    IN FixMul(FixMul(s, threeMinusS2), FixConst(1, 2)))

RECURSIVE SignValue(_, _)
SignValue(x, iterations) ==
  IF iterations = 0 THEN x
  ELSE SignStepValue(SignValue(x, iterations - 1))

\* applyFlipMapping: -0.5x^2 + 0.5x + 1.
FlipValue(sign) ==
  With(sign, LAMBDA x :
    LET term1 == FixMul(FixMul(x, x), -FixConst(1, 2))
        term2 == FixMul(x, FixConst(1, 2))
    IN FixAdd(FixAdd(term1, term2), Fix(1)))

\* Step 1: the frequency of value v, the masked BMV blocks summed over the
\* blocks and over the slots; every row of the column is valid.
FrequencyValue(column, v, slotCount) ==
  LET bmv(b) == [i \in 1..RowsInBlock(b, Len(column), slotCount) |->
                   FixMul(IF BlockRows(column, b, slotCount)[i] = v
                          THEN Fix(1) ELSE Fix(0), Fix(1))]
  IN FixNorm(SumSeq([b \in 1..BlockCountOf(Len(column), slotCount) |->
                       SumSeq(bmv(b - 1))]))

\* Step 2: cumul[i] = freq[0] + ... + freq[i].
RECURSIVE CumulValue(_, _, _)
CumulValue(column, i, slotCount) ==
  IF i = 1 THEN FrequencyValue(column, 1, slotCount)
  ELSE FixAdd(CumulValue(column, i - 1, slotCount),
              FrequencyValue(column, i, slotCount))

\* Step 4: the indicator of bucket i.
IndicatorValue(cumul, invR, K) ==
  LET ratio == FixMul(cumul, invR)
      diff == FixAdd(ratio, -FixConst(K, 100))
  IN FlipValue(SignValue(diff, DefaultApproxSignIterations))

\* Step 5: the sum of 1 - indicator[i] over the first n buckets.
RECURSIVE BelowValue(_, _, _, _)
BelowValue(cumuls, invR, K, n) ==
  LET notInd == FixAdd(FixMul(IndicatorValue(cumuls[n], invR, K), -Fix(1)),
                       Fix(1))
  IN IF n = 1 THEN notInd
     ELSE FixAdd(BelowValue(cumuls, invR, K, n - 1), notInd)

\* The value Percentile leaves in every slot of its result.
PercentileValue(column, categories, K, slotCount) ==
  With([i \in 1..categories |-> CumulValue(column, i, slotCount)],
    LAMBDA cumuls :
  With(InverseValue(cumuls[categories], DefaultINVConfig.Iterations),
    LAMBDA invR :
  FixAdd(BelowValue(cumuls, invR, K, categories), Fix(1))))

(***************************************************************************)
(* SpecPercentile: the percentile engine is run on a column for one K and  *)
(* then on the same column for another K.                                  *)
(***************************************************************************)
ExampleColumn == <<3, 2, 4, 2, 3, 1, 5, 2, 3, 1, 4, 2, 3, 1, 5, 2, 3, 1, 4, 2>>
ExampleCategories == Len(ExampleColumn) \div 4
PercentileColumns == Columns(1, MaxCategories) \cup {ExampleColumn}
CategoriesOf(column) ==
  IF column = ExampleColumn THEN ExampleCategories ELSE MaxCategories
PercentileKs == {1, 25, 50, 75, 90, 100}
\* What a slot beyond the capacity may decrypt to.
GarbageValues == {-FixCap, Fix(1), FixCap}

PercentileInit ==
  /\ stats = ZeroStats
  /\ bootstrapper = TRUE
  /\ minLevel = 1
  /\ slots = Pow2(MaxLogSlots)
  /\ LogInit
  /\ arg = NilCt
  /\ inp = <<>>
  /\ ConcIdle

\* Percentile on the blocks of column: the levels, counters and errors of
\* the call; slot is what the slots of its result decrypt to.
PercentileRun(column, slot) ==
  LET blockCount == BlockCountOf(Len(column), slots)
  IN Pass(Percentile(Env(stats, 0), Blocks(blockCount, MaxLevel),
                     Store(blockCount, blockCount, MaxLevel),
                     CategoriesOf(column)), LAMBDA r :
       Out(r.env, Ct(r.ct.level, [i \in 1..slots |-> slot]), NoErr))

PercentileCall(column, K, previous) ==
  \E value \in {PercentileValue(column, CategoriesOf(column), K, slots)} :
  \E slot \in (IF value = Overflow THEN GarbageValues ELSE {value}) :
    /\ LogCall("Percentile", PercentileRun(column, slot))
    /\ arg' = NilCt
    /\ inp' = [column |-> column, categories |-> CategoriesOf(column),
               K |-> K, previous |-> previous]

PFirst ==
  /\ calls = 0
  /\ \E column \in PercentileColumns, K \in PercentileKs :
       PercentileCall(column, K, <<>>)

PSecond ==
  /\ calls = 1
  /\ err = NoErr
  /\ \E K \in PercentileKs :
       PercentileCall(inp.column, K, <<inp.K, ret.vals[1]>>)

PercentileNext == PFirst \/ PSecond

SpecPercentile == PercentileInit /\ [][PercentileNext]_vars

(***************************************************************************)
(* C17: for one column and K1 < K2 in (0, 100], the bucket index the       *)
(* percentile engine returns for K2 (slot 0 of its result, to the nearest  *)
(* integer) is greater than or equal to the one it returns for K1.         *)
(***************************************************************************)
C17_PercentileMonotone ==
  (lastOp = "Percentile" /\ calls = 2 /\ inp.previous[1] < inp.K) =>
    (err = NoErr /\ FixRound(ret.vals[1]) >= FixRound(inp.previous[2]))

(***************************************************************************)
(* C18: on the column [3,2,4,2,3,1,5,2,3,1,4,2,3,1,5,2,3,1,4,2] with       *)
(* K = 90 and S_f = 5 the percentile engine returns bucket index 5 in      *)
(* slot 0.                                                                 *)
(***************************************************************************)
C18_ExampleBucket ==
  (lastOp = "Percentile" /\ inp.column = ExampleColumn /\ inp.K = 90
     /\ inp.categories = 5) =>
    (err = NoErr /\ FixRound(ret.vals[1]) = 5)

(***************************************************************************)
(* C21 as stated: in every INVNTHSQRT iteration whose index is a multiple  *)
(* of B, iteration 0 included, y is bootstrapped when needs_bootstrap(y)   *)
(* holds, before y^n is computed.  On an evaluator without a bootstrapper  *)
(* that bootstrap can only fail, so a call whose input sits at or below    *)
(* the minimum level (y starts at x's level) stops at iteration 0 with     *)
(* the bootstrap's error, having issued nothing but the set-up of y.       *)
(***************************************************************************)
C21_BootstrapAtMultiples ==
  (/\ lastOp = "INVNTHSQRT"
   /\ inp.in.N >= 1 /\ inp.in.Iterations >= 1 /\ inp.in.BootstrapFrequency >= 1
   /\ ~bootstrapper
   /\ NeedsBootstrap(arg)
   /\ failed # 1) =>
    /\ err # NoErr
    /\ err[Len(err)] = "bootstrapping not available"
    /\ Len(trace) = 1

EntryLevel == IF NeedsBootstrap(arg) /\ bootstrapper THEN MaxLevel ELSE arg.level

C23_BootstrapCentralized ==
  (lastOp # "none" /\ err # NoErr) =>
    err[Len(err)] # "bootstrapping not available"

(***************************************************************************)
(* C24: in the facade calls of every operator, each ct*ct and each         *)
(* ct*plaintext multiplication that succeeds is followed at once by the    *)
(* rescale of its product, so no product (and nothing derived from it by   *)
(* additions or constant operations) reaches another multiplication        *)
(* unrescaled.                                                             *)
(***************************************************************************)
Multiplications == {"Mul", "MulPlaintext"}

C24_MulThenRescale ==
  (lastOp # "none") =>
    \A i \in 1..Len(trace) :
      (trace[i][1] \in Multiplications /\ i # failed) =>
        (i < Len(trace) /\ trace[i + 1][1] = "Rescale")

\* The filter polynomial completes: three products, each rescaled.
C24_Witness ==
  /\ lastOp = "ApplyFilterPolynomial"
  /\ err = NoErr
  /\ Len(trace) = 8
  /\ trace[1][1] = "Mul" /\ trace[2][1] = "Rescale"
  /\ trace[3][1] = "Mul" /\ trace[4][1] = "Rescale"
  /\ trace[7][1] = "Mul" /\ trace[8][1] = "Rescale"

(***************************************************************************)
(* C25 as stated: DEZ raises the sinc approximation to the K-th power by   *)
(* successive squaring, so sharpening costs on the order of log2 K         *)
(* ciphertext multiplications (at most 2 * ceil(log2 K), the cost of       *)
(* square-and-multiply) rather than K - 1.                                 *)
(***************************************************************************)
MulsIn(t) == Cardinality({i \in 1..Len(t) : t[i][1] = "Mul"})
\* The multiplications of the power cache and of the filter polynomial.
FixedMuls == (SincDegree - 1) + 3

C25_SharpenBySquaring ==
  (lastOp = "DISCRETEEQUALZERO" /\ err = NoErr /\ inp.in.K >= 1) =>
    MulsIn(trace) - FixedMuls <= 2 * CeilLog2(inp.in.K)

(***************************************************************************)
(* SpecPack: ComputeLBc on stores whose blocks hold given slot values: a   *)
(* primary column's PBMV blocks, the validity blocks and, when a secondary *)
(* column is listed, its BBMV blocks.                                      *)
(***************************************************************************)
PackSlots == Pow2(1)
SlotVectors(values) == [1..PackSlots -> values]
BlockLists(n, values) == [1..n -> SlotVectors(values)]
\* The BBMV blocks of the secondary column: all ones, or ones and zeros in
\* turn.
BBMVPatterns(n) ==
  {[b \in 1..n |-> [i \in 1..PackSlots |-> 1]],
   [b \in 1..n |-> [i \in 1..PackSlots |-> (b + i) % 2]]}

PackInit ==
  /\ stats = ZeroStats
  /\ bootstrapper = FALSE
  /\ minLevel = DefaultMinLevel
  /\ slots = PackSlots
  /\ LogInit
  /\ arg = NilCt
  /\ inp = <<>>
  /\ ConcIdle

PComputeLBc ==
  /\ calls = 0
  /\ \E n \in 1..MaxBlocks, others \in {<<>>, <<"f1">>} :
       \E pbmv \in BlockLists(n, 1..2), valid \in BlockLists(n, 0..1),
          bbmv \in BBMVPatterns(n) :
         /\ LogCall("ComputeLBc",
                    ComputeLBc(Env(stats, 0), DefaultLBcConfig,
                               StoreOf(pbmv, MaxLevel), others,
                               [columns |-> {"f1"},
                                store |-> StoreOf(bbmv, MaxLevel)],
                               [b \in 1..n |-> Ct(MaxLevel, valid[b])]))
         /\ arg' = NilCt
         /\ inp' = [pbmv |-> pbmv, valid |-> valid, bbmv |-> bbmv,
                    others |-> others]

PackNext == PComputeLBc

SpecPack == PackInit /\ [][PackNext]_vars

(***************************************************************************)
(* C26: ComputeLBc issues, block after block, the product pbmv_b *         *)
(* validity_b and its rescale, then for each secondary column in the       *)
(* listed order the product with bbmv_c_b and its rescale; it then adds    *)
(* the blocks' results into one packed ciphertext, the only one of its     *)
(* result, and issues no rotation; every slot of the packed ciphertext is  *)
(* the sum over the blocks of that slot's product.                         *)
(***************************************************************************)
\* Slot i of block b's product.
SlotProduct(b, i) ==
  inp.pbmv[b][i] * inp.valid[b][i]
    * (IF inp.others = <<>> THEN 1 ELSE inp.bbmv[b][i])

EmptyInputOps ==
  {"Count", "MaskedSum", "BuildMask", "Bc", "Percentile", "ComputeLBc"}

\* Zero blocks among the block lists and stores handed in, or zero
\* categories.
EmptyInput ==
  \/ 0 \in inp.counts
  \/ lastOp = "Percentile" /\ inp.in[3] = 0

C27_EmptyInputRefused ==
  (lastOp \in EmptyInputOps /\ EmptyInput) =>
    /\ err # NoErr
    /\ err[Len(err)] # Panic[1]

\* The error return holds for the operators that test their block count.
C27_EmptyCountRefused ==
  (lastOp \in {"Count", "MaskedSum"} /\ EmptyInput) =>
    /\ err # NoErr
    /\ err[Len(err)] \in {"no blocks provided", "block count mismatch"}
    /\ ret = NilCt
    /\ trace = <<>>

(***************************************************************************)
(* SpecIter: the block iterators of the table store.  A caller creates an  *)
(* iterator over the blocks of a column, or over the BMV blocks of one     *)
(* category value, and calls Next and Reset on it; a load succeeds or      *)
(* fails (the block file is missing or unreadable).  inp is the iterator,  *)
(* before its position before the last call, and trace lists the blocks    *)
(* the successful Next calls returned since the iterator was created or    *)
(* last reset; calls counts the Reset calls.                               *)
(***************************************************************************)
\* TableStore.LoadBlock: the ciphertext of the block's file, or an error.
LoadBlock(columnName, blockIndex, loaded) ==
  IF loaded
  THEN [ct |-> [file |-> <<"block", columnName, blockIndex>>], err |-> NoErr]
  ELSE [ct |-> NilCt, err |-> <<"load failed">>]

\* TableStore.LoadBMV.
LoadBMV(columnName, categoryValue, blockIndex, loaded) ==
  IF loaded
  THEN [ct |-> [file |-> <<"bmv", columnName, categoryValue, blockIndex>>],
        err |-> NoErr]
  ELSE [ct |-> NilCt, err |-> <<"load failed">>]

NewBlockIterator(columnName, blockCount) ==
  [columnName |-> columnName, blockCount |-> blockCount, current |-> 0]

NewBMVIterator(columnName, categoryValue, blockCount) ==
  [columnName |-> columnName, categoryValue |-> categoryValue,
   blockCount |-> blockCount, current |-> 0]

HasNext(bi) == bi.current < bi.blockCount

\* Variant: the position advances before the block is loaded.
BlockIteratorNext_AdvancingFirst(bi, loaded) ==
  IF ~HasNext(bi)
  THEN [it |-> bi, ct |-> NilCt, err |-> <<"no more blocks">>]
  ELSE LET l == LoadBlock(bi.columnName, bi.current, loaded)
       IN [it |-> [bi EXCEPT !.current = @ + 1], ct |-> l.ct, err |-> l.err]

\* BlockIterator.Next: the iterator after the call, the block and the error.
BlockIteratorNext(bi, loaded) ==
  IF ~HasNext(bi)
  THEN [it |-> bi, ct |-> NilCt, err |-> <<"no more blocks">>]
  ELSE LET l == LoadBlock(bi.columnName, bi.current, loaded)
       IN IF l.err # NoErr
          THEN [it |-> bi, ct |-> NilCt, err |-> l.err]
          ELSE [it |-> [bi EXCEPT !.current = @ + 1], ct |-> l.ct,
                err |-> NoErr]

\* BMVIterator.Next.
BMVIteratorNext(bi, loaded) ==
  IF ~HasNext(bi)
  THEN [it |-> bi, ct |-> NilCt, err |-> <<"no more blocks">>]
  ELSE LET l == LoadBMV(bi.columnName, bi.categoryValue, bi.current, loaded)
       IN IF l.err # NoErr
          THEN [it |-> bi, ct |-> NilCt, err |-> l.err]
          ELSE [it |-> [bi EXCEPT !.current = @ + 1], ct |-> l.ct,
                err |-> NoErr]

\* BlockIterator.Reset and BMVIterator.Reset.
IteratorReset(bi) == [bi EXCEPT !.current = 0]

IsBMVIterator(bi) == "categoryValue" \in DOMAIN bi

IterColumns == {"f0", "f1"}

IterCreated(it) ==
  /\ inp = it
  /\ ret = NilCt
  /\ err = NoErr
  /\ lastOp = "NewIterator"
  /\ before = 0
  /\ trace = <<>>
  /\ calls = 0

IterInit ==
  /\ stats = ZeroStats
  /\ bootstrapper = FALSE
  /\ minLevel = DefaultMinLevel
  /\ slots = 1
  /\ arg = NilCt
  /\ failed = 0
  /\ ConcIdle
  /\ \E c \in IterColumns, n \in BlockCounts :
       \/ IterCreated(NewBlockIterator(c, n))
       \/ \E v \in 1..MaxCategories : IterCreated(NewBMVIterator(c, v, n))

IterCall(name, r) ==
  /\ inp' = r.it
  /\ ret' = r.ct
  /\ err' = r.err
  /\ lastOp' = name
  /\ before' = inp.current
  /\ trace' = IF name = "Reset" THEN <<>>
              ELSE IF r.err = NoErr THEN Append(trace, r.ct.file[Len(r.ct.file)])
              ELSE trace
  /\ calls' = IF name = "Reset" THEN calls + 1 ELSE calls
  /\ UNCHANGED <<evalVars, stats, arg, failed, concVars>>

INextBlock ==
  /\ ~IsBMVIterator(inp)
  /\ \E loaded \in BOOLEAN : IterCall("Next", BlockIteratorNext(inp, loaded))

INextBMV ==
  /\ IsBMVIterator(inp)
  /\ \E loaded \in BOOLEAN : IterCall("Next", BMVIteratorNext(inp, loaded))

IReset ==
  /\ calls < MaxCalls
  /\ IterCall("Reset", [it |-> IteratorReset(inp), ct |-> NilCt, err |-> NoErr])

IterNext == INextBlock \/ INextBMV \/ IReset

SpecIter == IterInit /\ [][IterNext]_vars

(***************************************************************************)
(* C28: for a BlockIterator or BMVIterator over NB blocks, the position is *)
(* in 0..NB after every Next and Reset; the successful Next calls return   *)
(* the blocks 0, 1, ... in order (of the iterator's column, and category   *)
(* value); a Next that fails, exhausted or on a load error, returns no     *)
(* block and leaves the position where it was; Reset puts the position at  *)
(* 0, so the next successful Next returns block 0.                         *)
(***************************************************************************)
FileOf(bi, blockIndex) ==
  IF IsBMVIterator(bi)
  THEN <<"bmv", bi.columnName, bi.categoryValue, blockIndex>>
  ELSE <<"block", bi.columnName, blockIndex>>

C28_IteratorPosition ==
  (lastOp \in {"NewIterator", "Next", "Reset"}) =>
    /\ inp.current \in 0..inp.blockCount
    /\ inp.current = Len(trace)
    /\ trace = [i \in 1..Len(trace) |-> i - 1]
    /\ (lastOp = "Next" /\ err = NoErr) =>
         /\ inp.current = before + 1
         /\ ret = [file |-> FileOf(inp, before)]
    /\ (lastOp = "Next" /\ err # NoErr) =>
         /\ inp.current = before
         /\ ret = NilCt
         /\ (err = <<"no more blocks">>) <=> (before = inp.blockCount)
    /\ (lastOp = "Reset") => inp.current = 0

\* After a Reset, a failed load at block 1 of a BMV iterator over the most
\* blocks: block 0 was returned again, the position stays at 1.
C28_Witness ==
  /\ lastOp = "Next"
  /\ IsBMVIterator(inp)
  /\ inp.blockCount = MaxBlocks
  /\ calls >= 1
  /\ err = <<"load failed">>
  /\ before = 1
  /\ inp.current = 1
  /\ trace = <<0>>

(***************************************************************************)
(* pkg/privacy: the inspector and the LBc post-processor.  An optional     *)
(* value (a nil pointer or interface) is a sequence of no or one element;  *)
(* a list of violations is modelled by the set of its entries, the order   *)
(* of a map iteration being unspecified.                                   *)
(***************************************************************************)
Policy(minCount, maxPrecision, suppress, rounding, audit) ==
  [MinCount |-> minCount, MaxPrecision |-> maxPrecision,
   SuppressSmallGroups |-> suppress, RoundingEnabled |-> rounding,
   AuditEnabled |-> audit]

DefaultPolicy == Policy(5, 4, TRUE, TRUE, TRUE)

\* A numeric result is modelled in units of 10^-ValueDigits.
ValueDigits == 2

RECURSIVE Pow10(_)
Pow10(n) == IF n <= 0 THEN 1 ELSE 10 * Pow10(n - 1)

\* math.Round(value*multiplier) / multiplier with multiplier = 10^precision:
\* to the nearest multiple of 10^-precision, halves away from zero.
RoundDecimals(value, precision) ==
  IF precision >= ValueDigits THEN value
  ELSE LET q == Pow10(ValueDigits - precision)
       IN IF value >= 0 THEN ((2 * value + q) \div (2 * q)) * q
          ELSE 0 - (((2 * (0 - value) + q) \div (2 * q)) * q)

Violation(rule, cell) == [Rule |-> rule, Cell |-> cell]

AuditRecord(policy, operation, resultType, approved) ==
  IF policy.AuditEnabled
  THEN <<[Operation |-> operation, ResultType |-> resultType,
          Approved |-> approved]>>
  ELSE <<>>

InspectionResult(approved, violations, transformed, audit) ==
  [Approved |-> approved, Violations |-> violations,
   TransformedValue |-> transformed, AuditRecord |-> audit]

\* The minimum-count test of InspectNumeric, InspectCount, InspectPercentile.
BelowMinimum(policy, count) ==
  policy.SuppressSmallGroups /\ count < policy.MinCount

InspectNumeric(policy, value, count, operation) ==
  LET approved == ~BelowMinimum(policy, count)
      rounded == IF approved /\ policy.RoundingEnabled
                 THEN RoundDecimals(value, policy.MaxPrecision)
                 ELSE value
  IN InspectionResult(approved,
       IF approved THEN {} ELSE {Violation("min_count", <<>>)},
       IF approved THEN <<rounded>> ELSE <<>>,
       AuditRecord(policy, operation, "numeric", approved))

InspectCount(policy, count) ==
  LET approved == ~BelowMinimum(policy, count)
  IN InspectionResult(approved,
       IF approved THEN {} ELSE {Violation("min_count", <<>>)},
       IF approved THEN <<count>> ELSE <<>>,
       AuditRecord(policy, "bc", "count", approved))

\* result.Approved is set to true and never assigned again.
InspectContingencyTable(policy, counts) ==
  LET low == {key \in DOMAIN counts : counts[key] < policy.MinCount}
      suppressedCells == IF policy.SuppressSmallGroups THEN low ELSE {}
      violations == IF policy.SuppressSmallGroups THEN {}
                    ELSE {Violation("min_count", key) : key \in low}
      approved == TRUE
      transformedCounts ==
        [key \in DOMAIN counts |->
           IF key \in suppressedCells THEN -1 ELSE counts[key]]
  IN InspectionResult(approved, violations,
       IF approved \/ violations = {}
       THEN <<[Counts |-> transformedCounts]>> ELSE <<>>,
       AuditRecord(policy, "lbc", "contingency_table", approved))

InspectPercentile(policy, bucket, count) ==
  LET approved == ~BelowMinimum(policy, count)
  IN InspectionResult(approved,
       IF approved THEN {} ELSE {Violation("min_count", <<>>)},
       IF approved THEN <<bucket>> ELSE <<>>,
       AuditRecord(policy, "percentile", "bucket_index", approved))

\* ProcessDecryptedChunks, whole: the table, its inspection and the number
\* of suppressed cells.
PostProcessResult(policy, chunks, categoryCounts) ==
  LET counts == ProcessDecryptedChunks(chunks, categoryCounts)
      inspection == InspectContingencyTable(policy, counts)
      transformed == inspection.TransformedValue
  IN [Table |-> [Counts |-> counts],
      Suppressions |->
        IF transformed = <<>> THEN 0
        ELSE Cardinality({key \in DOMAIN transformed[1].Counts :
                            transformed[1].Counts[key] = -1}),
      Inspection |-> inspection]

(***************************************************************************)
(* SpecPrivacy: results are inspected under a policy, and the decrypted    *)
(* chunks of an LBc result are post-processed under a policy.              *)
(***************************************************************************)
MaxMinCount == 2
GroupCounts == 0..(MaxMinCount + 1)
NumericValues == {-15, 4, 15, 125}

\* The default policy and the policies a policy file can hold.
Policies ==
  {DefaultPolicy}
    \cup {Policy(m, p, s, r, a) : m \in 0..MaxMinCount, p \in 0..ValueDigits,
                                  s \in BOOLEAN, r \in BOOLEAN, a \in BOOLEAN}
TablePolicies ==
  {DefaultPolicy}
    \cup {Policy(m, DefaultPolicy.MaxPrecision, s, TRUE, a) :
            m \in 0..MaxMinCount, s \in BOOLEAN, a \in BOOLEAN}

\* The tables of one dimension with the given true counts.
CellCounts == [1..MaxCategories -> GroupCounts]
CountsOf(cells) == [key \in {<<v>> : v \in 1..MaxCategories} |-> cells[key[1]]]

PrivacyInit ==
  /\ stats = ZeroStats
  /\ bootstrapper = FALSE
  /\ minLevel = DefaultMinLevel
  /\ slots = 1
  /\ LogInit
  /\ arg = NilCt
  /\ inp = <<>>
  /\ ConcIdle

PrivacyCall(name, input, result) ==
  /\ calls = 0
  /\ lastOp' = name
  /\ inp' = input
  /\ ret' = result
  /\ calls' = 1
  /\ UNCHANGED <<evalVars, stats, arg, err, before, trace, failed, concVars>>

VInspectNumeric ==
  /\ calls = 0
  /\ \E policy \in Policies, value \in NumericValues, count \in GroupCounts :
       PrivacyCall("InspectNumeric",
                   [policy |-> policy, value |-> value, count |-> count],
                   InspectNumeric(policy, value, count, "mean"))

VInspectCount ==
  /\ calls = 0
  /\ \E policy \in Policies, count \in GroupCounts :
       PrivacyCall("InspectCount", [policy |-> policy, count |-> count],
                   InspectCount(policy, count))

VInspectContingencyTable ==
  /\ calls = 0
  /\ \E policy \in TablePolicies, cells \in CellCounts :
       PrivacyCall("InspectContingencyTable",
                   [policy |-> policy, cells |-> cells],
                   InspectContingencyTable(policy, CountsOf(cells)))

VInspectPercentile ==
  /\ calls = 0
  /\ \E policy \in Policies, bucket \in 1..MaxCategories,
        count \in GroupCounts :
       PrivacyCall("InspectPercentile",
                   [policy |-> policy, bucket |-> bucket, count |-> count],
                   InspectPercentile(policy, bucket, count))

\* The decrypted chunks: the cells' true counts with the decryption noise,
\* in one chunk or split over two.
VProcessDecryptedChunks ==
  /\ calls = 0
  /\ \E policy \in TablePolicies, cells \in CellCounts, noise \in Noises,
        split \in BOOLEAN :
       LET whole == Decode(cells, [i \in 1..MaxCategories |-> noise])
           first == [i \in 1..MaxCategories |->
                       IF cells[i] > 0 THEN whole[i] - Unit ELSE whole[i]]
           second == [i \in 1..MaxCategories |->
                        IF cells[i] > 0 THEN Unit ELSE 0]
       IN PrivacyCall("ProcessDecryptedChunks",
                      [policy |-> policy, cells |-> cells],
                      PostProcessResult(policy,
                                        IF split THEN <<first, second>>
                                        ELSE <<whole>>,
                                        <<MaxCategories>>))

PrivacyNext ==
  \/ VInspectNumeric \/ VInspectCount \/ VInspectContingencyTable
  \/ VInspectPercentile \/ VProcessDecryptedChunks

SpecPrivacy == PrivacyInit /\ [][PrivacyNext]_vars

(***************************************************************************)
(* C29: in every inspection result of the inspector (numeric, count,       *)
(* contingency table, percentile, and the inspection carried by a          *)
(* post-processing result), Approved = true implies that Violations is     *)
(* empty.                                                                  *)
(***************************************************************************)
InspectOps ==
  {"InspectNumeric", "InspectCount", "InspectContingencyTable",
   "InspectPercentile"}

Inspection ==
  IF lastOp = "ProcessDecryptedChunks" THEN ret.Inspection ELSE ret

C29_ApprovedHasNoViolation ==
  (lastOp \in InspectOps \cup {"ProcessDecryptedChunks"}) =>
    (Inspection.Approved => Inspection.Violations = {})

\* The single-value inspections keep the rule.
C29_SingleValueInspections ==
  (lastOp \in InspectOps \ {"InspectContingencyTable"}) =>
    /\ ret.Approved <=> ret.Violations = {}
    /\ ret.Approved <=> ret.TransformedValue # <<>>
    /\ ret.Approved <=> ~BelowMinimum(inp.policy, inp.count)

(***************************************************************************)
(* C30: with small-group suppression enabled, the true count of a cell     *)
(* below MinCount is observable in nothing ProcessDecryptedChunks returns: *)
(* every such cell is -1 in every table of the returned PostProcessResult. *)
(***************************************************************************)
C30_SmallCellsHidden ==
  (lastOp = "ProcessDecryptedChunks" /\ inp.policy.SuppressSmallGroups) =>
    \A v \in 1..MaxCategories :
      (inp.cells[v] < inp.policy.MinCount) =>
        /\ ret.Table.Counts[<<v>>] = -1
        /\ (ret.Inspection.TransformedValue # <<>>) =>
             ret.Inspection.TransformedValue[1].Counts[<<v>>] = -1

\* The transformed table of the inspection hides them.
C30_TransformedTableHides ==
  (lastOp = "ProcessDecryptedChunks" /\ inp.policy.SuppressSmallGroups) =>
    /\ ret.Inspection.TransformedValue # <<>>
    /\ \A v \in 1..MaxCategories :
         ret.Inspection.TransformedValue[1].Counts[<<v>>] =
           (IF inp.cells[v] < inp.policy.MinCount THEN -1 ELSE inp.cells[v])

====
